---- MODULE Spec2Model ----
(***************************************************************************)
(* Client-side leapfrog integrator of Gala Studio                          *)
(* (client/src/supabaseClient.ts: generateEnsemble, integrate).            *)
(*                                                                         *)
(* JavaScript numbers are modelled as a decimal floating-point format with *)
(* Digits significant digits, round-to-nearest on every operation, an      *)
(* exponent range beyond which a result overflows to an infinity or        *)
(* underflows to zero, and the three IEEE special values NaN, +Infinity    *)
(* and -Infinity with their IEEE arithmetic.  The sign of zero is not      *)
(* kept: the code divides only by r2 * r, which is never negative.         *)
(***************************************************************************)
EXTENDS Integers, Sequences, FiniteSets, TLC

(***************************************************************************)
(* Bounds of the model.                                                    *)
(***************************************************************************)
\* significant decimal digits of a number
Digits == 3
\* largest decimal exponent of a finite number (of its leading digit)
ExpMax == 40
\* largest step count passed to integrate
MaxSteps == 2
\* number of integrate invocations in one behaviour
MaxCalls == 3
\* number of store operations started in one behaviour
MaxOps == 3
\* number of addLog calls in one behaviour, and of marked entries among them
MaxLogged == 52
MaxMarked == 2

(***************************************************************************)
(* Numbers.  A number is a pair <<m, e>>: the finite value m * 10^e with   *)
(* m = 0 (and e = 0) or 10^(Digits-1) <= |m| < 10^Digits, or one of the    *)
(* special values below, told apart by the exponent Special.               *)
(***************************************************************************)
\* the exponent field that marks a special value
Special == 10000 - 1
NaN == <<0, Special>>
PInf == <<1, Special>>
NInf == <<-1, Special>>
Zero == <<0, 0>>

\* a value that was never assigned (undefined); arithmetic reads it as NaN
Undefined == <<2, Special>>
IsNaN(a) == a = NaN \/ a = Undefined
IsInf(a) == a = PInf \/ a = NInf
IsFinite(a) == a[2] # Special
Sign(a) == IF a[1] > 0 THEN 1 ELSE IF a[1] < 0 THEN -1 ELSE 0
Abs(n) == IF n < 0 THEN -n ELSE n
InfOf(s) == IF s > 0 THEN PInf ELSE NInf

PowersOfTen == <<1, 10, 100, 1000, 10000, 100000, 1000000, 10000000, 100000000, 1000000000>>
Pow10(n) == PowersOfTen[n + 1]

NumDigits(n) ==
    IF n < 10 THEN 1 ELSE IF n < 100 THEN 2 ELSE IF n < 1000 THEN 3
    ELSE IF n < 10000 THEN 4 ELSE IF n < 100000 THEN 5 ELSE IF n < 1000000 THEN 6
    ELSE IF n < 10000000 THEN 7 ELSE IF n < 100000000 THEN 8
    ELSE IF n < 1000000000 THEN 9 ELSE 10

\* quotient q and remainder r of a division by p, rounded to nearest, ties to even
RoundQuotient(q, r, p) ==
    IF r > p - r \/ (r = p - r /\ q % 2 = 1) THEN q + 1 ELSE q
RoundDiv(n, p) == RoundQuotient(n \div p, n % p, p)

\* sign s, digits m (10^(Digits-1) <= m < 10^Digits) and exponent e, within the range
InRange(s, m, e) ==
    IF e + Digits - 1 > ExpMax THEN InfOf(s)
    ELSE IF e + Digits - 1 < -ExpMax THEN Zero
    ELSE <<s * m, e>>
\* the rounding may carry into one more digit
Carry(s, m, e) ==
    IF m = Pow10(Digits) THEN InRange(s, Pow10(Digits - 1), e + 1) ELSE InRange(s, m, e)
\* s * a * 10^e, where a > 0 has d digits
RoundTo(s, a, e, d) ==
    IF d > Digits THEN Carry(s, RoundDiv(a, Pow10(d - Digits)), e + d - Digits)
    ELSE InRange(s, a * Pow10(Digits - d), e + d - Digits)
\* the number nearest to n * 10^e, for any integer n
Normalize(n, e) ==
    IF n = 0 THEN Zero
    ELSE RoundTo(IF n < 0 THEN -1 ELSE 1, Abs(n), e, NumDigits(Abs(n)))

Neg(a) == IF IsNaN(a) THEN NaN ELSE <<-a[1], a[2]>>

\* hi + lo for two finite non-zero numbers, hi with the larger exponent
AddAligned(hi, lo) ==
    IF hi[2] - lo[2] > Digits + 1 THEN hi
    ELSE Normalize(hi[1] * Pow10(hi[2] - lo[2]) + lo[1], lo[2])
Add(a, b) ==
    IF IsNaN(a) \/ IsNaN(b) THEN NaN
    ELSE IF IsInf(a) THEN (IF IsInf(b) /\ a # b THEN NaN ELSE a)
    ELSE IF IsInf(b) THEN b
    ELSE IF a[1] = 0 THEN b
    ELSE IF b[1] = 0 THEN a
    ELSE IF a[2] >= b[2] THEN AddAligned(a, b) ELSE AddAligned(b, a)

Mul(a, b) ==
    IF IsNaN(a) \/ IsNaN(b) THEN NaN
    ELSE IF IsInf(a) \/ IsInf(b)
         THEN (IF Sign(a) * Sign(b) = 0 THEN NaN ELSE InfOf(Sign(a) * Sign(b)))
    ELSE Normalize(a[1] * b[1], a[2] + b[2])

\* the divisor is never negative zero: x / 0 has the sign of x
Div(a, b) ==
    IF IsNaN(a) \/ IsNaN(b) THEN NaN
    ELSE IF IsInf(a) THEN (IF IsInf(b) THEN NaN
                           ELSE InfOf(Sign(a) * (IF Sign(b) < 0 THEN -1 ELSE 1)))
    ELSE IF IsInf(b) THEN Zero
    ELSE IF b[1] = 0 THEN (IF a[1] = 0 THEN NaN ELSE InfOf(Sign(a)))
    ELSE Normalize(Sign(a) * Sign(b) * ((Abs(a[1]) * Pow10(Digits + 1)) \div Abs(b[1])),
                   a[2] - b[2] - Digits - 1)

\* largest r in lo..hi with r * r <= n, by bisection at mid
RECURSIVE ISqrt(_, _, _)
ISqrtAt(n, lo, hi, mid) ==
    IF mid * mid <= n THEN ISqrt(n, mid, hi) ELSE ISqrt(n, lo, mid - 1)
ISqrt(n, lo, hi) == IF lo >= hi THEN lo ELSE ISqrtAt(n, lo, hi, (lo + hi + 1) \div 2)

Sqrt(a) ==
    IF IsNaN(a) \/ a = NInf THEN NaN
    ELSE IF a = PInf THEN PInf
    ELSE IF a[1] < 0 THEN NaN
    ELSE IF a[1] = 0 THEN Zero
    ELSE IF a[2] % 2 # 0
         THEN Normalize(ISqrt(a[1] * 10 * Pow10(4), 0, 32000), (a[2] - 5) \div 2)
         ELSE Normalize(ISqrt(a[1] * Pow10(4), 0, 32000), (a[2] - 4) \div 2)



(***************************************************************************)
(* supabaseClient.ts:25-29 and the literals of generateEnsemble and        *)
(* integrate.  Num reads a decimal literal, digits * 10^exponent, into the *)
(* number format, as the engine does when it reads the source.             *)
(***************************************************************************)
Num(lit) == Normalize(lit[1], lit[2])

\* the decimal literals of lines 26-29 and 102, as <<digits, exponent>>
Literals ==
    [KM_S_TO_KPC_MYR |-> <<1022712165, -12>>,       \* 1.022712165e-3
     KPC_TO_KM_S_MYR |-> <<97779222, -5>>,          \* 977.79222
     G_GALACTIC |-> <<430091, -11>>,                \* 4.30091e-6
     G_SOLAR |-> <<394784176, -7>>,                 \* 39.4784176
     GalacticMassScale |-> <<1, 10>>]               \* 1e10
KM_S_TO_KPC_MYR == Num(Literals.KM_S_TO_KPC_MYR)
KPC_TO_KM_S_MYR == Num(Literals.KPC_TO_KM_S_MYR)
G_GALACTIC == Num(Literals.G_GALACTIC)
G_SOLAR == Num(Literals.G_SOLAR)
GalacticMassScale == Num(Literals.GalacticMassScale)
OnePointZero == Num(<<10, -1>>)
Half == Num(<<5, -1>>)
MinusTwo == Num(<<-20, -1>>)
d_pos == Num(<<1, -4>>)
d_vel == Num(<<1, -4>>)
EnsembleParticles == 100

\* a Vector3 array object: its three numbers and the invocation that
\* allocated it (0: an array of the caller)
NewArray(owner, a, b, c) == [own |-> owner, v |-> <<a, b, c>>]

(***************************************************************************)
(* Math.random: the engine's generator is a hidden state advanced by every *)
(* call.  It is modelled as a position in a cyclic stream of values of     *)
(* [0, 1), some of them 0; the seed (the first position) is arbitrary.     *)
(***************************************************************************)
Quarter == Num(<<25, -2>>)
ThreeQuarters == Num(<<75, -2>>)
RandomStream ==
    <<Half, Zero, Quarter, Half, Zero, Zero, ThreeQuarters, Half, ThreeQuarters,
      Quarter>>
StreamLen == Len(RandomStream)
MathRandom(i) == RandomStream[(i % StreamLen) + 1]

\* Math.log and Math.cos(2.0 * Math.PI * v) on the values Math.random yields
LogQuarter == Num(<<-1386294361, -9>>)
LogHalf == Num(<<-693147181, -9>>)
LogThreeQuarters == Num(<<-287682072, -9>>)
MathLog(u) ==
    CASE u = Zero -> NInf
      [] u = Quarter -> LogQuarter
      [] u = Half -> LogHalf
      [] u = ThreeQuarters -> LogThreeQuarters
CosHalfPi == Num(<<612323400, -25>>)
CosPi == Num(<<-1, 0>>)
CosThreeHalfPi == Num(<<-183697020, -24>>)
CosTwoPi(v) ==
    CASE v = Zero -> OnePointZero
      [] v = Quarter -> CosHalfPi
      [] v = Half -> CosPi
      [] v = ThreeQuarters -> CosThreeHalfPi

\* a faulty draw, which keeps whatever Math.random returns first
DrawFirst(i) == i
\* while(u === 0) u = Math.random(): the position of the draw that ends the loop
RECURSIVE DrawNonZero(_)
DrawNonZero(i) == IF MathRandom(i) # Zero THEN i ELSE DrawNonZero(i + 1)

\* Math.sqrt( -2.0 * Math.log( u ) ) * Math.cos( 2.0 * Math.PI * v )
BoxMuller(u, v) == Mul(Sqrt(Mul(MinusTwo, MathLog(u))), CosTwoPi(v))

\* randn (lines 54-59), called with the generator at position i: the variate,
\* the position the generator is left at, and u and v as line 58 reads them;
\* u is drawn at iu, v at iv
randnDrawn(iu, iv) ==
    [val |-> BoxMuller(MathRandom(iu), MathRandom(iv)), rng |-> iv + 1,
     u |-> MathRandom(iu), v |-> MathRandom(iv)]
randnAfterU(iu) == randnDrawn(iu, DrawNonZero(iu + 1))
randn(i) == randnAfterU(DrawNonZero(i))

\* n calls of randn one after the other, the first at position i: the
\* variates, after those of acc, the position the generator is left at, and
\* of each call its u and v and the positions from .. to - 1 it drew at
RECURSIVE Variates(_, _, _)
NoVariates == [val |-> <<>>, calls |-> <<>>]
VariatesAfter(acc, i, drawn, n) ==
    Variates([val |-> Append(acc.val, drawn.val),
              calls |-> Append(acc.calls, [u |-> drawn.u, v |-> drawn.v,
                                           from |-> i, to |-> drawn.rng])],
             drawn.rng, n - 1)
Variates(acc, i, n) ==
    IF n = 0 THEN [val |-> acc.val, calls |-> acc.calls, rng |-> i % StreamLen]
    ELSE VariatesAfter(acc, i, randn(i), n)

\* one iteration of the loop of generateEnsemble (lines 52-72), with the
\* generator at position i: the two arrays pushed and the generator's position
Perturbed(owner, centerPos, centerVel, six) ==
    [position |-> NewArray(owner,
                     Add(centerPos.v[1], Mul(six.val[1], d_pos)),
                     Add(centerPos.v[2], Mul(six.val[2], d_pos)),
                     Add(centerPos.v[3], Mul(six.val[3], d_pos))),
     velocity |-> NewArray(owner,
                     Add(centerVel.v[1], Mul(six.val[4], d_vel)),
                     Add(centerVel.v[2], Mul(six.val[5], d_vel)),
                     Add(centerVel.v[3], Mul(six.val[6], d_vel))),
     rng |-> six.rng, calls |-> six.calls]
CloudParticle(owner, centerPos, centerVel, i) ==
    Perturbed(owner, centerPos, centerVel, Variates(NoVariates, i, 6))

(***************************************************************************)
(* Faulty unit setups, which the properties of the unit configuration must *)
(* tell from the code's: one with the position and acceleration scales     *)
(* exchanged, one that takes every selector but 'galactic' for the solar   *)
(* system.                                                                 *)
(***************************************************************************)
UnitSetupScalesExchanged(units, massOriginal) ==
    IF units = "solarsystem"
    THEN [G |-> G_SOLAR, mass |-> massOriginal, C_x |-> OnePointZero,
          C_v |-> OnePointZero, Acc_Factor |-> OnePointZero]
    ELSE [G |-> G_GALACTIC, mass |-> Mul(massOriginal, GalacticMassScale),
          C_x |-> KPC_TO_KM_S_MYR, C_v |-> OnePointZero,
          Acc_Factor |-> KM_S_TO_KPC_MYR]
UnitSetupGalacticTested(units, massOriginal) ==
    IF units = "galactic"
    THEN [G |-> G_GALACTIC, mass |-> Mul(massOriginal, GalacticMassScale),
          C_x |-> KM_S_TO_KPC_MYR, C_v |-> OnePointZero,
          Acc_Factor |-> KPC_TO_KM_S_MYR]
    ELSE [G |-> G_SOLAR, mass |-> massOriginal, C_x |-> OnePointZero,
          C_v |-> OnePointZero, Acc_Factor |-> OnePointZero]

(***************************************************************************)
(* integrate, lines 87-106: the unit configuration of a selector.          *)
(***************************************************************************)
UnitSetup(units, massOriginal) ==
    IF units = "solarsystem"
    THEN [G |-> G_SOLAR, mass |-> massOriginal, C_x |-> OnePointZero,
          C_v |-> OnePointZero, Acc_Factor |-> OnePointZero]
    ELSE [G |-> G_GALACTIC, mass |-> Mul(massOriginal, GalacticMassScale),
          C_x |-> KM_S_TO_KPC_MYR, C_v |-> OnePointZero,
          Acc_Factor |-> KPC_TO_KM_S_MYR]

\* const ensembleSize = computeEnsemble ? 100 : 0
EnsembleSizeOf(computeEnsemble) == IF computeEnsemble THEN EnsembleParticles ELSE 0

\* x*x + y*y + z*z
SquaredRadius(px, py, pz) == Add(Add(Mul(px, px), Mul(py, py)), Mul(pz, pz))
\* -(G * mass) / (r2 * r) * Acc_Factor
AccelMagnitude(cfg, r2, r) ==
    Mul(Div(Neg(Mul(cfg.G, cfg.mass)), Mul(r2, r)), cfg.Acc_Factor)
\* a faulty a_mag, which guards the division against r = 0
AccelMagnitudeGuarded(cfg, r2) ==
    IF r2 = Zero THEN Zero ELSE AccelMagnitude(cfg, r2, Sqrt(r2))
\* r = Math.sqrt(r2), then a_mag
AccelMagnitudeAt(cfg, r2) == AccelMagnitude(cfg, r2, Sqrt(r2))

\* lines 139-142 and 174-177: r2, r, a_mag and ax, ay, az of the primary
PrimaryAccelBy(a_mag, p) ==
    [p EXCEPT !.ax = Mul(a_mag, p.x), !.ay = Mul(a_mag, p.y), !.az = Mul(a_mag, p.z)]
PrimaryForce(cfg, p) ==
    PrimaryAccelBy(AccelMagnitudeAt(cfg, SquaredRadius(p.x, p.y, p.z)), p)

\* lines 166-168 and 179-181: vx += ax * 0.5 * dt * C_v, and vy, vz
PrimaryKick(cfg, dt, p) ==
    [p EXCEPT !.vx = Add(p.vx, Mul(Mul(Mul(p.ax, Half), dt), cfg.C_v)),
              !.vy = Add(p.vy, Mul(Mul(Mul(p.ay, Half), dt), cfg.C_v)),
              !.vz = Add(p.vz, Mul(Mul(Mul(p.az, Half), dt), cfg.C_v))]
\* lines 170-172: x += vx * dt * C_x, and y, z
PrimaryDrift(cfg, dt, p) ==
    [p EXCEPT !.x = Add(p.x, Mul(Mul(p.vx, dt), cfg.C_x)),
              !.y = Add(p.y, Mul(Mul(p.vy, dt), cfg.C_x)),
              !.z = Add(p.z, Mul(Mul(p.vz, dt), cfg.C_x))]
\* a faulty loop iteration, whose second kick uses the acceleration of the
\* position before the drift
PrimaryStepStaleForce(cfg, dt, p) ==
    PrimaryKick(cfg, dt, PrimaryDrift(cfg, dt, PrimaryKick(cfg, dt, p)))
\* lines 166-181: one loop iteration of the primary, on the record
\* [x, y, z, vx, vy, vz, ax, ay, az] of its local variables
PrimaryStep(cfg, dt, p) ==
    PrimaryKick(cfg, dt, PrimaryForce(cfg, PrimaryDrift(cfg, dt, PrimaryKick(cfg, dt, p))))

\* lines 150-159 and 205-210: r2_s, r_s, a_mag_s and s.ax, s.ay, s.az
EnsembleAccelBy(a_mag_s, s) ==
    [s EXCEPT !.ax = Mul(a_mag_s, s.x), !.ay = Mul(a_mag_s, s.y), !.az = Mul(a_mag_s, s.z)]
\* a faulty force step, which leaves the particle's acceleration as it was
EnsembleForceKept(cfg, s) == s
EnsembleForce(cfg, s) ==
    EnsembleAccelBy(AccelMagnitudeAt(cfg, SquaredRadius(s.x, s.y, s.z)), s)
\* a faulty kick of an ensemble particle, by the whole time step
EnsembleKickWhole(cfg, dt, s) ==
    [s EXCEPT !.vx = Add(s.vx, Mul(Mul(s.ax, dt), cfg.C_v)),
              !.vy = Add(s.vy, Mul(Mul(s.ay, dt), cfg.C_v)),
              !.vz = Add(s.vz, Mul(Mul(s.az, dt), cfg.C_v))]
\* lines 193-197 and 214-218
EnsembleKick(cfg, dt, s) ==
    [s EXCEPT !.vx = Add(s.vx, Mul(Mul(Mul(s.ax, Half), dt), cfg.C_v)),
              !.vy = Add(s.vy, Mul(Mul(Mul(s.ay, Half), dt), cfg.C_v)),
              !.vz = Add(s.vz, Mul(Mul(Mul(s.az, Half), dt), cfg.C_v))]
\* lines 200-202
EnsembleDrift(cfg, dt, s) ==
    [s EXCEPT !.x = Add(s.x, Mul(Mul(s.vx, dt), cfg.C_x)),
              !.y = Add(s.y, Mul(Mul(s.vy, dt), cfg.C_x)),
              !.z = Add(s.z, Mul(Mul(s.vz, dt), cfg.C_x))]
\* a faulty iteration of an ensemble particle, which drifts before its first kick
EnsembleStepDriftFirst(cfg, dt, s) ==
    EnsembleKick(cfg, dt, EnsembleForce(cfg, EnsembleKick(cfg, dt, EnsembleDrift(cfg, dt, s))))
\* lines 189-218: one loop iteration of ensemble particle s
EnsembleStep(cfg, dt, s) ==
    EnsembleKick(cfg, dt, EnsembleForce(cfg, EnsembleDrift(cfg, dt, EnsembleKick(cfg, dt, s))))

(***************************************************************************)
(* The arguments callers pass.                                             *)
(***************************************************************************)
One == Num(<<1, 0>>)
MinusOne == Num(<<-1, 0>>)
Masses == {Zero, One}
Positions == {<<Zero, Zero, Zero>>, <<One, Zero, Zero>>}
Velocities == {<<MinusOne, Zero, Zero>>, <<Zero, One, Zero>>}
TimeSteps == {One, MinusOne}
StepCounts == -1 .. MaxSteps
UnitSelectors == {"galactic", "solarsystem", "imperial"}
Arguments ==
    [massOriginal : Masses, pos : Positions, vel : Velocities, dt : TimeSteps,
     steps : StepCounts, units : UnitSelectors, computeEnsemble : BOOLEAN]

\* the arguments of the runs that are repeated and reordered
RepeatedArguments ==
    [massOriginal : {One}, pos : {<<One, Zero, Zero>>}, vel : {<<Zero, One, Zero>>},
     dt : {One}, steps : {MaxSteps}, units : {"galactic", "solarsystem"},
     computeEnsemble : BOOLEAN]

\* the arguments of ensemble runs from a state whose components are so large
\* that a perturbation of d_pos or d_vel does not change them, and from one
\* it does change
SeededArguments ==
    [massOriginal : {One}, pos : {<<One, One, One>>, <<One, Zero, Zero>>},
     vel : {<<One, MinusOne, One>>}, dt : TimeSteps, steps : {MaxSteps},
     units : {"galactic", "solarsystem"}, computeEnsemble : {TRUE}]

NoArguments ==
    [massOriginal |-> Zero, pos |-> <<Zero, Zero, Zero>>, vel |-> <<Zero, Zero, Zero>>,
     dt |-> Zero, steps |-> 0, units |-> "", computeEnsemble |-> FALSE]
NoConfig == [G |-> Zero, mass |-> Zero, C_x |-> Zero, C_v |-> Zero, Acc_Factor |-> Zero]
NoPrimary ==
    [x |-> Zero, y |-> Zero, z |-> Zero, vx |-> Zero, vy |-> Zero, vz |-> Zero,
     ax |-> Zero, ay |-> Zero, az |-> Zero]
NoCloud == [positions |-> <<>>, velocities |-> <<>>]
NoResult == [points |-> <<>>, velocities |-> <<>>, ensemble |-> [defined |-> FALSE, orbits |-> <<>>]]

(***************************************************************************)
(* The simulation store (client/src/store/authStore.ts, useStore) and the  *)
(* values it holds.  null and undefined are records of their own kind.  A  *)
(* trajectory the store holds is represented by where it came from: the    *)
(* engine that computed it, the invocation of integrateOrbit that obtained *)
(* it and the parameters it was computed for.  The fields of the store     *)
(* that only open or close panels are left out, and so are the id and the  *)
(* timestamp of a log entry.                                               *)
(***************************************************************************)
Null == [kind |-> "null"]
NotDefined == [kind |-> "undefined"]
EmptyArray == [kind |-> "array", of |-> <<>>]

\* lines 217-226: the default potentialParams
DefaultParams ==
    [mass |-> Num(<<10, -1>>), time_step |-> Num(<<10, -1>>),
     vx |-> Num(<<0, 0>>), vy |-> Num(<<2200, -1>>), vz |-> Num(<<0, 0>>),
     x |-> Num(<<80, -1>>), y |-> Num(<<0, 0>>), z |-> Num(<<0, 0>>)]
\* lines 262-264: the defaults setUnits merges in
UnitDefaults(units) ==
    IF units = "galactic"
    THEN [mass |-> Num(<<10, -1>>), x |-> Num(<<80, -1>>), y |-> Num(<<0, 0>>),
          z |-> Num(<<0, 0>>), vx |-> Num(<<0, 0>>), vy |-> Num(<<2200, -1>>),
          time_step |-> Num(<<10, -1>>)]
    ELSE [mass |-> Num(<<10, -1>>), x |-> Num(<<10, -1>>), y |-> Num(<<0, 0>>),
          z |-> Num(<<0, 0>>), vx |-> Num(<<0, 0>>), vy |-> Num(<<628, -2>>),
          time_step |-> Num(<<1, -1>>)]
\* { ...a, ...b }
Merge(a, b) == [f \in DOMAIN a \cup DOMAIN b |-> IF f \in DOMAIN b THEN b[f] ELSE a[f]]
\* s.slice(-n)
LastOf(s, n) == IF Len(s) <= n THEN s ELSE SubSeq(s, Len(s) - n + 1, Len(s))
LogKept == 49
\* line 245: the log the store is created with
InitialLogs == <<[msg |-> "Gala Studio System Initialized", type |-> "info"]>>
\* a faulty addLog, which keeps every entry
addLogUnbounded(logs, msg, type) == Append(logs, [msg |-> msg, type |-> type])
\* lines 246-248: the logs after addLog(msg, type)
addLog(logs, msg, type) == Append(LastOf(logs, LogKept), [msg |-> msg, type |-> type])

\* lines 186-226, 289, 298: the store as create() builds it
InitialStore ==
    [points |-> EmptyArray, velocities |-> EmptyArray, isIntegrating |-> FALSE,
     error |-> Null, successMsg |-> Null, units |-> "galactic", isDirty |-> FALSE,
     isCloudMode |-> FALSE, orbitEnsemble |-> Null, orbitActions |-> Null,
     isObserverMode |-> FALSE, skyPoints |-> Null, skyEnsemble |-> Null,
     evolutionMetadata |-> Null, timeDirection |-> "forward", energyError |-> Null,
     potentialType |-> "kepler", chaosData |-> Null, isAnalyzing |-> FALSE,
     potentialParams |-> DefaultParams, ghostPoints |-> Null,
     integrator |-> "leapfrog", logs |-> InitialLogs]

\* lines 352, 383: the step count integrateOrbit asks for, and line 389
OrbitSteps == 2000
EnsembleSizeAsked == 100

\* what the scene's OrbitPath has selected from the store and memoised
\* (GalacticScene.tsx, lines 89-110)
InitialScene ==
    [points |-> <<>>, orbitEnsemble |-> Null, isCloudMode |-> FALSE,
     linePoints |-> <<>>, ensemblePoints |-> <<>>]

\* integrate not yet called; steps is counted in halves, so that 3 is 1.5
InitialControl ==
    [at |-> "idle", steps |-> 0, computeEnsemble |-> FALSE, size |-> 0, i |-> 0,
     randns |-> 0, u |-> Zero, v |-> Zero, k |-> 0, evaluations |-> 0]

VARIABLES
    pc,             \* where integrate is: "idle" (not running), "generateEnsemble",
                    \* "acceleration", "loop"
    ncalls,         \* invocations of integrate so far; the running one is number ncalls
    args,           \* the arguments of the running invocation, as the caller passed them
    pos, vel,       \* the caller's two array objects, which integrate holds by reference
    cfg,            \* G, mass, C_x, C_v, Acc_Factor (lines 88-106)
    points, velocities,         \* lines 112-113
    primary,        \* x, y, z, vx, vy, vz, ax, ay, az (lines 116-117, 142)
    ensembleSize, ensembleState, ensembleOrbits,    \* lines 122-124
    cloud,          \* positions and velocities of generateEnsemble (lines 43-44)
    k,              \* the loop counter of line 164
    rng,            \* the position of Math.random's generator
    result,         \* what the last completed invocation returned
    history,        \* the completed invocations: arguments and result of each
    randnCalls,     \* the calls of randn in the last iteration of generateEnsemble
    store,          \* the state of the simulation store
    pending,        \* the requests in flight, each with the invocation awaiting it
    journal,        \* the invocations of the store's asynchronous operations so far
    timers,         \* the number of setTimeout callbacks not yet run
    scene,          \* what OrbitPath selected from the store, and what it draws
    control         \* where an invocation of integrate is when Math.random may
                    \* return anything: its loop counters and the last u and v

vars == <<pc, ncalls, args, pos, vel, cfg, points, velocities, primary, ensembleSize,
          ensembleState, ensembleOrbits, cloud, k, rng, result, history, randnCalls,
          store, pending, journal, timers, scene, control>>
integrateVars ==
    <<pc, ncalls, args, pos, vel, cfg, points, velocities, primary, ensembleSize,
      ensembleState, ensembleOrbits, cloud, k, rng, result, history, randnCalls>>
storeVars == <<store, pending, journal, timers>>

\* the first positions Math.random's generator may be at
MaxSeed == 1

Init ==
    /\ pc = "idle"
    /\ ncalls = 0
    /\ args = NoArguments
    /\ pos = NewArray(0, Zero, Zero, Zero)
    /\ vel = NewArray(0, Zero, Zero, Zero)
    /\ cfg = NoConfig
    /\ points = <<>>
    /\ velocities = <<>>
    /\ primary = NoPrimary
    /\ ensembleSize = 0
    /\ ensembleState = <<>>
    /\ ensembleOrbits = <<>>
    /\ cloud = NoCloud
    /\ k = 0
    /\ rng \in 0 .. MaxSeed
    /\ result = NoResult
    /\ history = <<>>
    /\ randnCalls = <<>>
    /\ store = InitialStore
    /\ pending = {}
    /\ journal = <<>>
    /\ timers = 0
    /\ scene = InitialScene
    /\ control = InitialControl

\* faulty variants of the definitions below: trajectories that outlive the
\* call, a setup with pos and vel exchanged, a trajectory entry that is the
\* caller's array, a trail without the initial position, a loop of one
\* iteration too many, a result whose ensemble is always an array
StaleTrajectory == result.points
PrimarySetupExchanged(callerPos, callerVel) ==
    [x |-> callerVel.v[1], y |-> callerVel.v[2], z |-> callerVel.v[3],
     vx |-> callerPos.v[1], vy |-> callerPos.v[2], vz |-> callerPos.v[3],
     ax |-> Zero, ay |-> Zero, az |-> Zero]
PointInCallersArray(owner, p) == [pos EXCEPT !.v = <<p.x, p.y, p.z>>]
TrailWithoutStart(c, i) == <<>>
\* a faulty record of the velocity, which takes the first ensemble particle's
\* when there is an ensemble
VelocityOfCloud(owner, p) ==
    IF args.computeEnsemble /\ ensembleState # <<>>
    THEN NewArray(owner, ensembleState[1].vx, ensembleState[1].vy, ensembleState[1].vz)
    ELSE NewArray(owner, p.vx, p.vy, p.vz)
\* a faulty trail, which holds the initial position twice
TrailStartedTwice(c, i) == <<c.positions[i], c.positions[i]>>
LoopContinuesInclusive(counter, steps) == counter <= steps
\* a faulty loop test, which takes the step count by its magnitude
LoopContinuesMagnitude(counter, steps) == counter < (IF steps < 0 THEN -steps ELSE steps)
\* a faulty particle selection, which takes the first particle whatever i is
ParticleFirst(states, i) == states[1]
ResultWithEnsemble(computeEnsemble, pts, vels, orbits) ==
    [points |-> pts, velocities |-> vels,
     ensemble |-> [defined |-> TRUE, orbits |-> orbits]]

\* lines 112-113: const points = [], const velocities = []
EmptyTrajectory == <<>>
\* lines 116-117: let x = pos[0], ..., vx = vel[0], ...
PrimarySetup(callerPos, callerVel) ==
    [NoPrimary EXCEPT !.x = callerPos.v[1], !.y = callerPos.v[2], !.z = callerPos.v[3],
                      !.vx = callerVel.v[1], !.vy = callerVel.v[2], !.vz = callerVel.v[3]]
\* lines 144 and 183, 145 and 184: the arrays [x, y, z] and [vx, vy, vz]
PointOf(owner, p) == NewArray(owner, p.x, p.y, p.z)
VelocityOf(owner, p) == NewArray(owner, p.vx, p.vy, p.vz)
\* lines 150 and 189: const s = ensembleState[i]
ParticleAt(states, i) == states[i]
\* lines 129-132: the state of particle i of the cloud; ax, ay, az are not set yet
EnsembleParticle(c, i) ==
    [x |-> c.positions[i].v[1], y |-> c.positions[i].v[2], z |-> c.positions[i].v[3],
     vx |-> c.velocities[i].v[1], vy |-> c.velocities[i].v[2], vz |-> c.velocities[i].v[3],
     ax |-> Undefined, ay |-> Undefined, az |-> Undefined]
\* lines 133-134: the trail of particle i, with the cloud's own array as its first entry
InitialTrail(c, i) == <<c.positions[i]>>
\* line 164: k < steps
LoopContinues(counter, steps) == counter < steps
\* line 228: { points, velocities, ensemble: computeEnsemble ? ensembleOrbits : undefined }
ResultOf(computeEnsemble, pts, vels, orbits) ==
    [points |-> pts, velocities |-> vels,
     ensemble |-> IF computeEnsemble THEN [defined |-> TRUE, orbits |-> orbits]
                  ELSE [defined |-> FALSE, orbits |-> <<>>]]

(***************************************************************************)
(* integrate(massOriginal, pos, vel, dt, steps, units, computeEnsemble),   *)
(* lines 77-124: the unit setup and the declarations up to the ensemble.   *)
(* The caller's arrays are objects of the caller holding a.pos and a.vel.  *)
(***************************************************************************)
Invoke(a) ==
    /\ pc = "idle"
    /\ ncalls' = ncalls + 1
    /\ args' = a
    /\ pos' = NewArray(0, a.pos[1], a.pos[2], a.pos[3])
    /\ vel' = NewArray(0, a.vel[1], a.vel[2], a.vel[3])
    /\ cfg' = UnitSetup(a.units, a.massOriginal)
    /\ points' = EmptyTrajectory
    /\ velocities' = EmptyTrajectory
    /\ primary' = PrimarySetup(pos', vel')
    /\ ensembleSize' = EnsembleSizeOf(a.computeEnsemble)
    /\ ensembleState' = <<>>
    /\ ensembleOrbits' = <<>>
    /\ cloud' = NoCloud
    /\ k' = 0
    /\ pc' = IF a.computeEnsemble THEN "generateEnsemble" ELSE "acceleration"
    /\ UNCHANGED <<rng, result, history, randnCalls, storeVars, scene, control>>

\* lines 127 and 52-72: one iteration of the loop of generateEnsemble(pos, vel, ensembleSize)
GenerateEnsemble ==
    /\ pc = "generateEnsemble"
    /\ Len(cloud.positions) < ensembleSize
    /\ \E c \in {CloudParticle(ncalls, pos, vel, rng)} :
           /\ cloud' = [positions |-> Append(cloud.positions, c.position),
                        velocities |-> Append(cloud.velocities, c.velocity)]
           /\ rng' = c.rng
           /\ randnCalls' = c.calls
    /\ UNCHANGED <<pc, ncalls, args, pos, vel, cfg, points, velocities, primary,
                   ensembleSize, ensembleState, ensembleOrbits, k, result, history,
                   storeVars, scene, control>>

\* lines 74 and 128-135: generateEnsemble returns; the particle states and the trails
SetupEnsemble ==
    /\ pc = "generateEnsemble"
    /\ ~(Len(cloud.positions) < ensembleSize)
    /\ ensembleState' = [i \in 1 .. ensembleSize |-> EnsembleParticle(cloud, i)]
    /\ ensembleOrbits' = [i \in 1 .. ensembleSize |-> InitialTrail(cloud, i)]
    /\ pc' = "acceleration"
    /\ UNCHANGED <<ncalls, args, pos, vel, cfg, points, velocities, primary,
                   ensembleSize, cloud, k, rng, result, history, randnCalls,
                   storeVars, scene, control>>

\* lines 138-161: the initial accelerations and the first trajectory entry
InitialAcceleration ==
    /\ pc = "acceleration"
    /\ primary' = PrimaryForce(cfg, primary)
    /\ points' = Append(points, PointOf(ncalls, primary))
    /\ velocities' = Append(velocities, VelocityOf(ncalls, primary))
    /\ ensembleState' = IF args.computeEnsemble
                        THEN [i \in 1 .. ensembleSize |->
                                 EnsembleForce(cfg, ParticleAt(ensembleState, i))]
                        ELSE ensembleState
    /\ k' = 0
    /\ pc' = "loop"
    /\ UNCHANGED <<ncalls, args, pos, vel, cfg, ensembleSize, ensembleOrbits, cloud,
                   rng, result, history, randnCalls, storeVars, scene, control>>

\* lines 164-226: one iteration of the loop
LoopStep ==
    /\ pc = "loop"
    /\ LoopContinues(k, args.steps)
    /\ primary' = PrimaryStep(cfg, args.dt, primary)
    /\ points' = Append(points, PointOf(ncalls, primary'))
    /\ velocities' = Append(velocities, VelocityOf(ncalls, primary'))
    /\ IF args.computeEnsemble
       THEN /\ ensembleState' =
                   [i \in 1 .. ensembleSize |->
                       EnsembleStep(cfg, args.dt, ParticleAt(ensembleState, i))]
            /\ ensembleOrbits' =
                   [i \in 1 .. ensembleSize |->
                       Append(ensembleOrbits[i], PointOf(ncalls, ensembleState'[i]))]
       ELSE UNCHANGED <<ensembleState, ensembleOrbits>>
    /\ k' = k + 1
    /\ UNCHANGED <<pc, ncalls, args, pos, vel, cfg, ensembleSize, cloud, rng, result, history,
                   randnCalls, storeVars, scene, control>>

\* line 228: the loop has ended; the result goes to the caller and the locals die
Return ==
    /\ pc = "loop"
    /\ ~LoopContinues(k, args.steps)
    /\ result' = ResultOf(args.computeEnsemble, points, velocities, ensembleOrbits)
    /\ history' = Append(history, [args |-> args, pos |-> pos, vel |-> vel, result |-> result'])
    /\ pc' = "idle"
    /\ cfg' = NoConfig
    /\ points' = <<>>
    /\ velocities' = <<>>
    /\ primary' = NoPrimary
    /\ ensembleSize' = 0
    /\ ensembleState' = <<>>
    /\ ensembleOrbits' = <<>>
    /\ cloud' = NoCloud
    /\ k' = 0
    /\ randnCalls' = <<>>
    /\ UNCHANGED <<ncalls, args, pos, vel, rng, storeVars, scene, control>>

Run == GenerateEnsemble \/ SetupEnsemble \/ InitialAcceleration \/ LoopStep \/ Return

\* one invocation, with any arguments
InvokeOnce == ncalls = 0 /\ \E a \in Arguments : Invoke(a)
Next == InvokeOnce \/ Run
Spec == Init /\ [][Next]_vars

\* several invocations one after the other, in any order
InvokeAgain == ncalls < MaxCalls /\ \E a \in RepeatedArguments : Invoke(a)
NextCalls == InvokeAgain \/ Run
SpecCalls == Init /\ [][NextCalls]_vars

\* ---- integrate with a random source that may return anything ----
\* The arithmetic is left out: what is kept is every loop of integrate and of
\* generateEnsemble, the values Math.random returns, and the count of the
\* force evaluations of the ensemble loop.

\* a loop that never accepts what Math.random returns
DrawAgainBelowOne(value) == value # One

\* what Math.random may return: 0, or a value in (0, 1)
Draws == {Zero, Half}
\* the values of steps, in halves: -1, -0.5, 0, 0.5, ... , MaxSteps
StepsAsked == -2 .. 2 * MaxSteps
\* the calls of randn for one particle (lines 61-71)
RandnPerParticle == 6

\* while(u === 0), while(v === 0)
DrawAgain(value) == value = Zero

\* lines 77-160: integrate is called; with computeEnsemble it calls
\* generateEnsemble, whose loop starts at particle 0
integrateEntered(halves, withEnsemble) ==
    /\ control.at = "idle"
    /\ control' = [InitialControl EXCEPT
                      !.steps = halves, !.computeEnsemble = withEnsemble,
                      !.size = EnsembleSizeOf(withEnsemble),
                      !.at = IF withEnsemble THEN "for" ELSE "loop"]
    /\ UNCHANGED <<integrateVars, storeVars, scene>>

\* line 52: for (let i = 0; i < size; i++); the first randn is called (line 55),
\* or generateEnsemble returns and the set-up of lines 127-160 is done
ensembleFor ==
    /\ control.at = "for"
    /\ control' = IF control.i < control.size
                  THEN [control EXCEPT !.at = "u", !.u = Zero, !.v = Zero, !.randns = 0]
                  ELSE [control EXCEPT !.at = "loop"]
    /\ UNCHANGED <<integrateVars, storeVars, scene>>

\* line 56: u = Math.random(), while u is 0
randomU(value) ==
    /\ control.at = "u"
    /\ DrawAgain(control.u)
    /\ control' = [control EXCEPT !.u = value]
    /\ UNCHANGED <<integrateVars, storeVars, scene>>

\* line 56: u is not 0, the first loop is left
exitU ==
    /\ control.at = "u"
    /\ ~DrawAgain(control.u)
    /\ control' = [control EXCEPT !.at = "v"]
    /\ UNCHANGED <<integrateVars, storeVars, scene>>

\* line 57: v = Math.random(), while v is 0
randomV(value) ==
    /\ control.at = "v"
    /\ DrawAgain(control.v)
    /\ control' = [control EXCEPT !.v = value]
    /\ UNCHANGED <<integrateVars, storeVars, scene>>

\* lines 57-58: v is not 0 and randn returns; after the sixth call the
\* particle is pushed (lines 61-71) and the loop of line 52 goes on
randnReturned ==
    /\ control.at = "v"
    /\ ~DrawAgain(control.v)
    /\ control' = IF control.randns + 1 < RandnPerParticle
                  THEN [control EXCEPT !.at = "u", !.u = Zero, !.v = Zero,
                                       !.randns = control.randns + 1]
                  ELSE [control EXCEPT !.at = "for", !.i = control.i + 1,
                                       !.randns = control.randns + 1]
    /\ UNCHANGED <<integrateVars, storeVars, scene>>

\* lines 164-184: k < steps, and the primary orbit is stepped; without an
\* ensemble the iteration is over (k++)
loopFor ==
    /\ control.at = "loop"
    /\ LoopContinues(2 * control.k, control.steps)
    /\ control' = IF control.computeEnsemble
                  THEN [control EXCEPT !.at = "ensemble", !.i = 0]
                  ELSE [control EXCEPT !.k = control.k + 1]
    /\ UNCHANGED <<integrateVars, storeVars, scene>>

\* lines 188-222: one particle is kicked, drifted, its force evaluated from
\* its own position (lines 204-210), kicked and stored
particleStepped ==
    /\ control.at = "ensemble"
    /\ control.i < control.size
    /\ control' = [control EXCEPT !.i = control.i + 1,
                                  !.evaluations = control.evaluations + 1]
    /\ UNCHANGED <<integrateVars, storeVars, scene>>

\* line 188: i reached ensembleSize; the iteration is over (k++)
particlesDone ==
    /\ control.at = "ensemble"
    /\ ~(control.i < control.size)
    /\ control' = [control EXCEPT !.at = "loop", !.k = control.k + 1]
    /\ UNCHANGED <<integrateVars, storeVars, scene>>

\* lines 164, 228: k < steps is false, and integrate returns
integrateReturned ==
    /\ control.at = "loop"
    /\ ~LoopContinues(2 * control.k, control.steps)
    /\ control' = [control EXCEPT !.at = "returned"]
    /\ UNCHANGED <<integrateVars, storeVars, scene>>

\* Math.random returns a value other than 0
NonZeroDrawn == \E value \in Draws \ {Zero} : randomU(value) \/ randomV(value)
\* the steps that are no call of Math.random
Proceeds ==
    \/ ensembleFor \/ exitU \/ randnReturned
    \/ loopFor \/ particleStepped \/ particlesDone \/ integrateReturned

NextTerminates ==
    \/ \E halves \in StepsAsked, withEnsemble \in BOOLEAN :
          integrateEntered(halves, withEnsemble)
    \/ \E value \in Draws : randomU(value)
    \/ \E value \in Draws : randomV(value)
    \/ Proceeds
\* integrate is synchronous, so once called it runs on; Math.random does not
\* return 0 for ever
SpecTerminates ==
    Init /\ [][NextTerminates]_vars /\ WF_vars(Proceeds) /\ WF_vars(NonZeroDrawn)

\* one ensemble invocation from a seed state of large or small components
InvokeSeeded == ncalls = 0 /\ \E a \in SeededArguments : Invoke(a)
NextSeeded == InvokeSeeded \/ Run
SpecSeeded == Init /\ [][NextSeeded]_vars

(***************************************************************************)
(* The operations of the simulation store.  integrateOrbit, analyzeChaos   *)
(* and exportPythonCode are asynchronous: each runs up to its request in   *)
(* one step and resumes when the request settles, in any order.  integrate *)
(* is represented by its arguments: it has no error outcome, so the catch  *)
(* of lines 368-370 is never entered.                                      *)
(***************************************************************************)
\* line 323: what integrateOrbit reads from the store as it starts
Captured(st) ==
    [potentialParams |-> st.potentialParams, units |-> st.units,
     potentialType |-> st.potentialType, isCloudMode |-> st.isCloudMode,
     isObserverMode |-> st.isObserverMode, timeDirection |-> st.timeDirection,
     integrator |-> st.integrator]

\* lines 327-342: the store after the reset and the first log entry
IntegrationStarted(st, silent) ==
    [st EXCEPT !.isIntegrating = TRUE, !.isDirty = FALSE, !.error = Null,
               !.chaosData = Null, !.energyError = Null, !.orbitEnsemble = Null,
               !.orbitActions = Null, !.skyPoints = Null, !.skyEnsemble = Null,
               !.evolutionMetadata = Null,
               !.logs = IF silent THEN @
                        ELSE addLog(@, "Initiating orbit trace integration...", "info")]

\* line 345: whether the client-side prediction is taken
PredictsLocally(c) == c.potentialType = "kepler"

\* lines 347-355: the arguments integrate is called with
IntegrateArguments(c) ==
    [massOriginal |-> c.potentialParams.mass,
     pos |-> <<c.potentialParams.x, c.potentialParams.y, c.potentialParams.z>>,
     vel |-> <<c.potentialParams.vx, c.potentialParams.vy, c.potentialParams.vz>>,
     dt |-> c.potentialParams.time_step, steps |-> OrbitSteps, units |-> c.units,
     computeEnsemble |-> c.isCloudMode]

\* a trajectory, by the engine that computed it, the invocation that obtained
\* it and what it was computed for
Trajectory(engine, id, for) ==
    [kind |-> "trajectory", engine |-> engine, invocation |-> id, for |-> for]
\* what integrate returns (supabaseClient.ts, line 228)
LocalResult(id, a) ==
    [points |-> Trajectory("client leapfrog", id, a),
     velocities |-> Trajectory("client leapfrog", id, a),
     ensemble |-> IF a.computeEnsemble THEN Trajectory("client leapfrog", id, a)
                  ELSE NotDefined]

\* lines 357-366: the prediction stored, and the log entry
PredictionStored(st, res, silent) ==
    [st EXCEPT !.points = res.points, !.velocities = res.velocities,
               !.orbitEnsemble = res.ensemble, !.isIntegrating = FALSE,
               !.successMsg = IF silent THEN Null
                              ELSE [kind |-> "text",
                                    of |-> "Prediction Calculated (Client-side)"],
               !.logs = IF silent THEN @
                        ELSE addLog(@, "Kepler prediction completed (Local Browser)",
                                    "success")]

\* null where a number is expected, and the number it is in a product
JsNull == <<3, Special>>
ToNumber(v) == IF v = JsNull THEN Zero ELSE v
\* lines 375, 517: the mass of the bodies of /integrate and /analyze_chaos
ScaledMass(c) ==
    IF c.units = "galactic" THEN Mul(ToNumber(c.potentialParams.mass), Num(<<10, 9>>))
    ELSE c.potentialParams.mass
\* line 444: the mass of the body of /export
ExportedMass(c) == Mul(ToNumber(c.potentialParams.mass), Num(<<10, 9>>))

\* lines 374-391: the body of the /integrate request
IntegrateBody(c) ==
    [mass |-> ScaledMass(c),
     x |-> c.potentialParams.x, y |-> c.potentialParams.y, z |-> c.potentialParams.z,
     vx |-> c.potentialParams.vx, vy |-> c.potentialParams.vy, vz |-> c.potentialParams.vz,
     time_step |-> c.potentialParams.time_step, steps |-> OrbitSteps, units |-> c.units,
     potential_type |-> c.potentialType, is_cloud |-> c.isCloudMode,
     is_observer |-> c.isObserverMode, time_direction |-> c.timeDirection,
     ensemble_size |-> EnsembleSizeAsked, integrator |-> c.integrator]
\* lines 443-455: the body of the /export request
ExportBody(c) ==
    [mass |-> ExportedMass(c),
     x |-> c.potentialParams.x, y |-> c.potentialParams.y, z |-> c.potentialParams.z,
     vx |-> c.potentialParams.vx, vy |-> c.potentialParams.vy, vz |-> c.potentialParams.vz,
     time_step |-> c.potentialParams.time_step, steps |-> OrbitSteps, units |-> c.units,
     potential_type |-> c.potentialType]
\* lines 516-528: the body of the /analyze_chaos request
AnalyzeBody(c) ==
    [mass |-> ScaledMass(c),
     x |-> c.potentialParams.x, y |-> c.potentialParams.y, z |-> c.potentialParams.z,
     vx |-> c.potentialParams.vx, vy |-> c.potentialParams.vy, vz |-> c.potentialParams.vz,
     time_step |-> c.potentialParams.time_step, steps |-> OrbitSteps, units |-> c.units,
     potential_type |-> c.potentialType]

\* an operation may start, and the number it gets
MayStart == Len(journal) < MaxOps
NextId == Len(journal) + 1
\* the journal entry of an invocation: what it read, the calls of integrate
\* and the requests it made before it first awaited
Entry(op, c, calls, requests) ==
    [op |-> op, captured |-> c, integrate |-> calls, requests |-> requests]
Request(endpoint, body) == [endpoint |-> endpoint, body |-> body]
\* the invocation awaiting a request
Awaiting(id, op, endpoint, body, silent, c) ==
    [id |-> id, op |-> op, endpoint |-> endpoint, body |-> body, silent |-> silent,
     isCloudMode |-> c.isCloudMode]

\* lines 271, 301, 430: the template literals, by the value they embed
SwitchedTo ==
    [kepler |-> "Potential Field switched to KEPLER",
     milkyway |-> "Potential Field switched to MILKYWAY",
     hernquist |-> "Potential Field switched to HERNQUIST"]
EngineSetTo ==
    [leapfrog |-> "Integrator Engine set to LEAPFROG",
     dop853 |-> "Integrator Engine set to DOP853",
     ruth4 |-> "Integrator Engine set to RUTH4"]
IntegrationError == [refused |-> "Integration error: refused"]
Text(t) == [kind |-> "text", of |-> t]
\* a || b, for a value that is an array when it is there
OrElse(a, b) == IF a = NotDefined \/ a = Null THEN b ELSE a

\* the values the interface offers
Partials == {[mass |-> Num(<<5, -1>>)], [x |-> Zero, vy |-> One]}
UnitSystems == {"galactic", "solarsystem"}
PotentialTypes == {"kepler", "milkyway", "hernquist"}
Directions == {"forward", "backward"}
Integrators == {"leapfrog", "dop853", "ruth4"}

\* a synchronous operation recorded
Done(op, with) == journal' = Append(journal, [op |-> op, with |-> with])
Quiet == UNCHANGED <<integrateVars, scene, control>>

\* lines 253-259
setPotentialParams(newParams) ==
    /\ MayStart
    /\ store' = [store EXCEPT !.potentialParams = Merge(@, newParams), !.isDirty = TRUE]
    /\ Done("setPotentialParams", newParams)
    /\ UNCHANGED <<pending, timers>> /\ Quiet
\* lines 261-267
setUnits(units) ==
    /\ MayStart
    /\ store' = [store EXCEPT !.units = units, !.isDirty = TRUE,
                              !.potentialParams = Merge(@, UnitDefaults(units))]
    /\ Done("setUnits", units)
    /\ UNCHANGED <<pending, timers>> /\ Quiet
\* lines 269-272
setPotentialType(type) ==
    /\ MayStart
    /\ store' = [store EXCEPT !.potentialType = type, !.isDirty = TRUE,
                              !.logs = addLog(@, SwitchedTo[type], "info")]
    /\ Done("setPotentialType", type)
    /\ UNCHANGED <<pending, timers>> /\ Quiet
\* a faulty setCloudMode, which does not mark the store dirty
setCloudModeClean(enabled) ==
    /\ MayStart
    /\ store' = [store EXCEPT !.isCloudMode = enabled]
    /\ Done("setCloudMode", enabled)
    /\ UNCHANGED <<pending, timers>> /\ Quiet
\* lines 277-279
setCloudMode(enabled) ==
    /\ MayStart
    /\ store' = [store EXCEPT !.isCloudMode = enabled, !.isDirty = TRUE]
    /\ Done("setCloudMode", enabled)
    /\ UNCHANGED <<pending, timers>> /\ Quiet
\* lines 281-283
setObserverMode(enabled) ==
    /\ MayStart
    /\ store' = [store EXCEPT !.isObserverMode = enabled, !.isDirty = TRUE]
    /\ Done("setObserverMode", enabled)
    /\ UNCHANGED <<pending, timers>> /\ Quiet
\* lines 285-287
setTimeDirection(direction) ==
    /\ MayStart
    /\ store' = [store EXCEPT !.timeDirection = direction, !.isDirty = TRUE]
    /\ Done("setTimeDirection", direction)
    /\ UNCHANGED <<pending, timers>> /\ Quiet
\* lines 299-302
setIntegrator(algo) ==
    /\ MayStart
    /\ store' = [store EXCEPT !.integrator = algo, !.isDirty = TRUE,
                              !.logs = addLog(@, EngineSetTo[algo], "info")]
    /\ Done("setIntegrator", algo)
    /\ UNCHANGED <<pending, timers>> /\ Quiet

\* lines 322-371: integrateOrbit up to its return after the local prediction
integrateOrbitLocally(silent) ==
    /\ MayStart
    /\ PredictsLocally(Captured(store))
    /\ store' = PredictionStored(IntegrationStarted(store, silent),
                                 LocalResult(NextId, IntegrateArguments(Captured(store))),
                                 silent)
    /\ journal' = Append(journal, Entry("integrateOrbit", Captured(store),
                                        <<IntegrateArguments(Captured(store))>>, <<>>))
    /\ UNCHANGED <<pending, timers>> /\ Quiet
\* lines 322-404: integrateOrbit up to the request it awaits
integrateOrbitByServer(silent) ==
    /\ MayStart
    /\ ~PredictsLocally(Captured(store))
    /\ store' = IntegrationStarted(store, silent)
    /\ pending' = pending \cup {Awaiting(NextId, "integrateOrbit", "/integrate",
                                         IntegrateBody(Captured(store)), silent,
                                         Captured(store))}
    /\ journal' = Append(journal, Entry("integrateOrbit", Captured(store), <<>>,
                                        <<Request("/integrate",
                                                  IntegrateBody(Captured(store)))>>))
    /\ UNCHANGED timers /\ Quiet
integrateOrbit(silent) == integrateOrbitLocally(silent) \/ integrateOrbitByServer(silent)

\* the answers of /integrate: every optional field there, or none, or a refusal
IntegrateAnswers(f) ==
    {[status |-> "success", points |-> Trajectory("server", f.id, f.body),
      velocities |-> Trajectory("server", f.id, f.body), energy_error |-> Zero,
      ensemble |-> Trajectory("server", f.id, f.body),
      actions |-> Trajectory("server", f.id, f.body),
      sky_coords |-> Trajectory("server", f.id, f.body),
      sky_ensemble |-> Trajectory("server", f.id, f.body)],
     [status |-> "success", points |-> Trajectory("server", f.id, f.body),
      velocities |-> NotDefined, energy_error |-> Zero, ensemble |-> NotDefined,
      actions |-> NotDefined, sky_coords |-> NotDefined, sky_ensemble |-> NotDefined],
     [status |-> "error", message |-> Text("refused")]}
\* lines 407-423
IntegrationStored(st, f, data) ==
    [st EXCEPT !.points = data.points, !.velocities = OrElse(data.velocities, EmptyArray),
               !.energyError = data.energy_error,
               !.orbitEnsemble = OrElse(data.ensemble, Null),
               !.orbitActions = OrElse(data.actions, Null),
               !.skyPoints = OrElse(data.sky_coords, Null),
               !.skyEnsemble = OrElse(data.sky_ensemble, Null),
               !.isIntegrating = FALSE,
               !.successMsg = IF f.silent THEN Null
                              ELSE IF f.isCloudMode THEN Text("Cloud Integrated! (100 Orbits)")
                              ELSE Text("Orbit Calculation Complete"),
               !.logs = IF f.silent THEN @
                        ELSE IF f.isCloudMode
                        THEN addLog(@, "Orbital ensemble computed (100 variants)", "success")
                        ELSE addLog(@, "Numerical integration finished", "success")]
\* a faulty refusal, which leaves isIntegrating as it is
IntegrationRefusedBusy(st, data) ==
    [st EXCEPT !.error = data.message,
               !.logs = addLog(@, IntegrationError[data.message.of], "warn")]
\* lines 429-430
IntegrationRefused(st, data) ==
    [st EXCEPT !.error = data.message, !.isIntegrating = FALSE,
               !.logs = addLog(@, IntegrationError[data.message.of], "warn")]
\* lines 404-431: the request of integrateOrbit answered
integrateOrbitAnswered ==
    \E f \in pending : \E data \in IntegrateAnswers(f) :
        /\ f.op = "integrateOrbit"
        /\ pending' = pending \ {f}
        /\ store' = IF data.status = "success" THEN IntegrationStored(store, f, data)
                    ELSE IntegrationRefused(store, data)
        /\ timers' = IF data.status = "success" /\ ~f.silent THEN timers + 1 ELSE timers
        /\ UNCHANGED journal /\ Quiet
\* lines 433-437: the request of integrateOrbit failed
integrateOrbitFailed ==
    \E f \in pending : \E message \in {Text("Failed to fetch"), Text("")} :
        /\ f.op = "integrateOrbit"
        /\ pending' = pending \ {f}
        /\ store' = [store EXCEPT !.error = IF message.of = "" THEN Text("Network Error")
                                            ELSE message,
                                  !.isIntegrating = FALSE]
        /\ UNCHANGED <<journal, timers>> /\ Quiet

\* lines 426, 547: a timer of 3000 ms fires
successMsgCleared ==
    /\ timers > 0
    /\ timers' = timers - 1
    /\ store' = [store EXCEPT !.successMsg = Null]
    /\ UNCHANGED <<pending, journal>> /\ Quiet

\* lines 440-457: exportPythonCode up to the request it awaits
exportPythonCode ==
    /\ MayStart
    /\ pending' = pending \cup {Awaiting(NextId, "exportPythonCode", "/export",
                                         ExportBody(Captured(store)), FALSE,
                                         Captured(store))}
    /\ journal' = Append(journal, Entry("exportPythonCode", Captured(store), <<>>,
                                        <<Request("/export", ExportBody(Captured(store)))>>))
    /\ UNCHANGED <<store, timers>> /\ Quiet
\* lines 457-462: the code or the error text returned, the store untouched
exportPythonCodeSettled ==
    \E f \in pending :
        /\ f.op = "exportPythonCode"
        /\ pending' = pending \ {f}
        /\ UNCHANGED <<store, journal, timers>> /\ Quiet

\* lines 511-535: analyzeChaos up to the request it awaits
analyzeChaos ==
    /\ MayStart
    /\ store' = [store EXCEPT !.isAnalyzing = TRUE, !.chaosData = Null]
    /\ pending' = pending \cup {Awaiting(NextId, "analyzeChaos", "/analyze_chaos",
                                         AnalyzeBody(Captured(store)), FALSE,
                                         Captured(store))}
    /\ journal' = Append(journal, Entry("analyzeChaos", Captured(store), <<>>,
                                        <<Request("/analyze_chaos",
                                                  AnalyzeBody(Captured(store)))>>))
    /\ UNCHANGED timers /\ Quiet
\* the answers of /analyze_chaos
AnalyzeAnswers ==
    {[status |-> "success", isChaotic |-> TRUE, lyapunovTime |-> One, lyapExp |-> One],
     [status |-> "success", isChaotic |-> FALSE, lyapunovTime |-> One, lyapExp |-> Zero],
     [status |-> "error"]}
\* lines 538-546
ChaosStored(st, data) ==
    [st EXCEPT !.chaosData = [isChaotic |-> data.isChaotic,
                              lyapunovTime |-> data.lyapunovTime,
                              lyapExp |-> data.lyapExp],
               !.successMsg = IF data.isChaotic THEN Text("Chaos Detected!")
                              ELSE Text("Orbit appears stable."),
               !.logs = IF data.isChaotic
                        THEN addLog(@, "Dynamical analysis complete. Chaos detected.", "warn")
                        ELSE addLog(@, "Dynamical analysis complete. System appears stable.",
                                    "success")]
\* lines 535-553: the request of analyzeChaos answered
analyzeChaosAnswered ==
    \E f \in pending : \E data \in AnalyzeAnswers :
        /\ f.op = "analyzeChaos"
        /\ pending' = pending \ {f}
        /\ store' = [(IF data.status = "success" THEN ChaosStored(store, data) ELSE store)
                        EXCEPT !.isAnalyzing = FALSE]
        /\ timers' = IF data.status = "success" THEN timers + 1 ELSE timers
        /\ UNCHANGED journal /\ Quiet
\* lines 549-553: the request of analyzeChaos failed
analyzeChaosFailed ==
    \E f \in pending :
        /\ f.op = "analyzeChaos"
        /\ pending' = pending \ {f}
        /\ store' = [store EXCEPT !.isAnalyzing = FALSE]
        /\ UNCHANGED <<journal, timers>> /\ Quiet


\* integrateOrbit(silent) called on the store st as invocation id: the store
\* when it returns or first awaits, its journal entry and what it awaits
Integrated(st, id, silent) ==
    IF PredictsLocally(Captured(st))
    THEN [store |-> PredictionStored(IntegrationStarted(st, silent),
                                     LocalResult(id, IntegrateArguments(Captured(st))),
                                     silent),
          entry |-> Entry("integrateOrbit", Captured(st),
                          <<IntegrateArguments(Captured(st))>>, <<>>),
          awaiting |-> {}]
    ELSE [store |-> IntegrationStarted(st, silent),
          entry |-> Entry("integrateOrbit", Captured(st), <<>>,
                          <<Request("/integrate", IntegrateBody(Captured(st)))>>),
          awaiting |-> {Awaiting(id, "integrateOrbit", "/integrate",
                                 IntegrateBody(Captured(st)), silent, Captured(st))}]

\* what the permalink hook passes to setCompleteState (usePermalink.ts,
\* lines 48-74): validated selectors, and numbers that are not NaN
Permalinks ==
    {[potentialType |-> "milkyway", units |-> "solarsystem",
      params |-> [x |-> PInf], integrator |-> "ruth4"],
     [potentialType |-> "kepler", units |-> "galactic",
      params |-> [mass |-> Num(<<2, 0>>)], integrator |-> "leapfrog"]}
\* lines 304-312
setCompleteState(link) ==
    /\ MayStart
    /\ store' = [store EXCEPT !.potentialType = link.potentialType,
                              !.units = link.units,
                              !.integrator = link.integrator,
                              !.isDirty = TRUE,
                              !.potentialParams = Merge(@, link.params)]
    /\ Done("setCompleteState", link)
    /\ UNCHANGED <<pending, timers>> /\ Quiet

\* the grid positions clicked
GridPositions == {<<Num(<<4, 0>>), Num(<<-4, 0>>)>>}
\* lines 314-320: the position set, then integrateOrbit(true)
injectFromGrid(at) ==
    /\ MayStart
    /\ \E r \in {Integrated([store EXCEPT
                                 !.potentialParams =
                                     Merge(@, [x |-> at[1], y |-> at[2], z |-> Zero]),
                                 !.isDirty = TRUE],
                            Len(journal) + 2, TRUE)} :
           /\ store' = r.store
           /\ pending' = pending \cup r.awaiting
           /\ journal' = journal \o <<[op |-> "injectFromGrid", with |-> at], r.entry>>
    /\ UNCHANGED timers /\ Quiet

(***************************************************************************)
(* JSON texts.  A text is not JSON or holds a value: null, a boolean, a    *)
(* string, a number by its decimal literal <<digits, exponent>>, or an     *)
(* object by the record of its members.                                    *)
(***************************************************************************)
NotJson == [valid |-> FALSE]
Json(value) == [valid |-> TRUE, value |-> value]
JsonNull == [t |-> "null"]
JsonString(str) == [t |-> "string", s |-> str]
JsonBoolean(b) == [t |-> "boolean", b |-> b]
JsonNumber(lit) == [t |-> "number", lit |-> lit]
JsonObject(members) == [t |-> "object", members |-> members]

\* JSON.stringify of a number: its literal when it is finite, null otherwise
StringifyNumber(v) == IF IsFinite(v) THEN JsonNumber(v) ELSE JsonNull
\* JSON.parse of a number or null: the literal rounded to a number, infinite
\* beyond the range
ParseNumber(j) == IF j.t = "number" THEN Num(j.lit) ELSE JsNull
\* lines 465-479
serializeState(st) ==
    Json(JsonObject(
        [version |-> JsonString("2.0"),
         potentialType |-> JsonString(st.potentialType),
         units |-> JsonString(st.units),
         potentialParams |->
             JsonObject([f \in DOMAIN st.potentialParams |->
                            StringifyNumber(st.potentialParams[f])]),
         integrator |-> JsonString(st.integrator),
         isCloudMode |-> JsonBoolean(st.isCloudMode),
         isObserverMode |-> JsonBoolean(st.isObserverMode),
         timeDirection |-> JsonString(st.timeDirection),
         timestamp |-> JsonString("toISOString")]))
\* serializeState called, and the text kept by the caller
stateSerialized ==
    /\ MayStart
    /\ journal' = Append(journal, [op |-> "serializeState", captured |-> Captured(store),
                                   text |-> serializeState(store)])
    /\ UNCHANGED <<store, pending, timers>> /\ Quiet

\* data.key of a parsed object, undefined when the member is absent
Member(data, key) == IF key \in DOMAIN data.members THEN data.members[key] ELSE NotDefined
\* !v of a member
Falsy(v) ==
    \/ v = NotDefined
    \/ v.t = "null"
    \/ (v.t = "string" /\ v.s = "")
    \/ (v.t = "boolean" /\ ~v.b)
    \/ (v.t = "number" /\ Num(v.lit) = Zero)
\* the value of a string or boolean member in the store
ValueOf(v) == IF v.t = "string" THEN v.s ELSE IF v.t = "boolean" THEN v.b ELSE Null
\* v || d and v ?? d
OrDefault(v, d) == IF Falsy(v) THEN d ELSE ValueOf(v)
Coalesce(v, d) == IF v = NotDefined \/ v.t = "null" THEN d ELSE ValueOf(v)
\* { ...data.potentialParams }
ParsedParams(v) == [f \in DOMAIN v.members |-> ParseNumber(v.members[f])]

\* lines 483-488: the error thrown, "" when there is none
ImportError(text) ==
    IF ~text.valid THEN "Import failed: Unexpected token"
    ELSE IF text.value.t = "null" THEN "Import failed: Cannot read properties of null"
    ELSE IF text.value.t # "object" \/ Falsy(Member(text.value, "potentialType"))
              \/ Falsy(Member(text.value, "potentialParams"))
    THEN "Import failed: Missing required simulation parameters"
    ELSE ""
\* lines 490-501
Imported(st, data) ==
    [st EXCEPT !.potentialType = ValueOf(Member(data, "potentialType")),
               !.units = OrDefault(Member(data, "units"), "galactic"),
               !.potentialParams = Merge(@, ParsedParams(Member(data, "potentialParams"))),
               !.integrator = OrDefault(Member(data, "integrator"), "leapfrog"),
               !.isCloudMode = Coalesce(Member(data, "isCloudMode"), FALSE),
               !.isObserverMode = Coalesce(Member(data, "isObserverMode"), FALSE),
               !.timeDirection = Coalesce(Member(data, "timeDirection"), "forward"),
               !.isDirty = TRUE,
               !.logs = addLog(@, "Simulation state imported successfully", "success")]
\* a faulty rejection, which also marks the store dirty
ImportRejectedDirty(st, text) ==
    [st EXCEPT !.logs = addLog(@, ImportError(text), "warn"), !.isDirty = TRUE]
\* lines 504-507
ImportRejected(st, text) == [st EXCEPT !.logs = addLog(@, ImportError(text), "warn")]

\* the texts pasted or loaded, besides the ones serializeState made
Documents ==
    {NotJson,
     Json(JsonNull),
     Json(JsonObject([potentialParams |-> JsonObject([mass |-> JsonNumber(<<2, 0>>)])])),
     Json(JsonObject([potentialType |-> JsonString("milkyway")])),
     Json(JsonObject([potentialType |-> JsonString("milkyway"),
                      potentialParams |-> JsonObject([x |-> JsonNumber(<<2, 0>>)])])),
     Json(JsonObject([potentialType |-> JsonString("kepler"),
                      units |-> JsonString("imperial"),
                      potentialParams |-> JsonObject([mass |-> JsonNumber(<<1, 999>>)])])),
     Json(JsonObject([potentialType |-> JsonString("plummer"),
                      integrator |-> JsonString("euler"),
                      timeDirection |-> JsonString("sideways"),
                      potentialParams |-> JsonObject([mass |-> JsonNumber(<<2, 0>>)])]))}
\* the texts serializeState returned so far
Saved ==
    {journal[n].text : n \in {m \in 1 .. Len(journal) : journal[m].op = "serializeState"}}

\* lines 481-509: importSimulation(json) up to its return or to the request
\* its integrateOrbit awaits; returns is what it then returns
importSimulation(json) ==
    /\ MayStart
    /\ IF ImportError(json) # ""
       THEN /\ store' = ImportRejected(store, json)
            /\ journal' = Append(journal, [op |-> "importSimulation", json |-> json,
                                           returns |-> FALSE])
            /\ UNCHANGED pending
       ELSE \E r \in {Integrated(Imported(store, json.value), Len(journal) + 2, FALSE)} :
                /\ store' = r.store
                /\ pending' = pending \cup r.awaiting
                /\ journal' = journal \o <<[op |-> "importSimulation", json |-> json,
                                            returns |-> TRUE], r.entry>>
    /\ UNCHANGED timers /\ Quiet

Setters ==
    \/ \E link \in Permalinks : setCompleteState(link)
    \/ \E newParams \in Partials : setPotentialParams(newParams)
    \/ \E units \in UnitSystems : setUnits(units)
    \/ \E type \in PotentialTypes : setPotentialType(type)
    \/ \E enabled \in BOOLEAN : setCloudMode(enabled)
    \/ \E enabled \in BOOLEAN : setObserverMode(enabled)
    \/ \E direction \in Directions : setTimeDirection(direction)
    \/ \E algo \in Integrators : setIntegrator(algo)
Requests ==
    \/ \E silent \in BOOLEAN : integrateOrbit(silent)
    \/ \E at \in GridPositions : injectFromGrid(at)
    \/ stateSerialized
    \/ \E json \in Documents \cup Saved : importSimulation(json)
    \/ exportPythonCode
    \/ analyzeChaos
Settled ==
    \/ integrateOrbitAnswered
    \/ integrateOrbitFailed
    \/ exportPythonCodeSettled
    \/ analyzeChaosAnswered
    \/ analyzeChaosFailed
    \/ successMsgCleared
NextStore == Setters \/ Requests \/ Settled
SpecStore == Init /\ [][NextStore]_vars

\* the entries logged directly: one text many times, another one a few times
LogCalls == {[msg |-> "tick", type |-> "info"], [msg |-> "mark", type |-> "warn"]}
Marked == {n \in 1 .. Len(journal) : journal[n].op = "addLog" /\ journal[n].with.msg = "mark"}
\* lines 246-248: addLog(msg, type) called on the store
addLogCalled(entry) ==
    /\ Len(journal) < MaxLogged
    /\ entry.msg = "mark" => Cardinality(Marked) < MaxMarked
    /\ store' = [store EXCEPT !.logs = addLog(@, entry.msg, entry.type)]
    /\ journal' = Append(journal, [op |-> "addLog", with |-> entry])
    /\ UNCHANGED <<pending, timers>> /\ Quiet
NextLog == \E entry \in LogCalls : addLogCalled(entry)
SpecLog == Init /\ [][NextLog]_vars

\* a request that was sent is answered or fails: the promise apiRequest
\* returns settles
SpecStoreFair == SpecStore /\ WF_vars(integrateOrbitAnswered \/ integrateOrbitFailed)

(***************************************************************************)
(* The scene's OrbitPath (GalacticScene.tsx, lines 87-110): it selects     *)
(* points, orbitEnsemble and isCloudMode from the store and memoises the   *)
(* vectors it gives to the line renderer.  The prediction shown is the one *)
(* integrateOrbit stores from a run of integrate.                          *)
(***************************************************************************)
\* the values of a sequence of arrays
ValuesOf(arrays) == [i \in 1 .. Len(arrays) |-> arrays[i].v]
\* a parameter so large that one step leaves the range of finite numbers
Huge == Num(<<1, 30>>)
SceneArguments ==
    [massOriginal : Masses, pos : Positions,
     vel : {<<Zero, One, Zero>>, <<Huge, Zero, Zero>>}, dt : {One, Huge},
     steps : {MaxSteps}, units : {"galactic", "solarsystem"}, computeEnsemble : BOOLEAN]

\* lines 98-101: the filter, and the vector made of a point
KeepsPoint(p) == ~IsNaN(p[1]) /\ ~IsNaN(p[2]) /\ ~IsNaN(p[3])
Vector3(p) == <<p[1], p[2], p[3]>>
\* lines 97-102
linePoints(pts) ==
    IF Len(pts) = 0 THEN <<>>
    ELSE [i \in 1 .. Len(SelectSeq(pts, KeepsPoint)) |->
              Vector3(SelectSeq(pts, KeepsPoint)[i])]
\* lines 105-110
ensemblePoints(isCloudMode, orbitEnsemble) ==
    IF ~isCloudMode \/ orbitEnsemble = Null \/ orbitEnsemble = NotDefined THEN <<>>
    ELSE [j \in 1 .. Len(orbitEnsemble.of) |->
              [i \in 1 .. Len(orbitEnsemble.of[j]) |-> Vector3(orbitEnsemble.of[j][i])]]

\* the ensemble of a result as the store holds it
EnsembleOf(res) ==
    IF res.ensemble.defined
    THEN [kind |-> "array",
          of |-> [j \in 1 .. Len(res.ensemble.orbits) |-> ValuesOf(res.ensemble.orbits[j])]]
    ELSE NotDefined

InvokeForScene == ncalls = 0 /\ \E a \in SceneArguments : Invoke(a)
\* authStore.ts lines 357-363 and GalacticScene.tsx lines 89-91: the result
\* of the run stored and selected
PredictionSelected ==
    /\ pc = "idle"
    /\ ncalls = 1
    /\ scene.points = <<>>
    /\ scene' = [scene EXCEPT !.points = ValuesOf(result.points),
                              !.orbitEnsemble = EnsembleOf(result),
                              !.isCloudMode = args.computeEnsemble]
    /\ UNCHANGED <<integrateVars, storeVars, control>>
\* GalacticScene.tsx lines 97-110: the memoised vectors recomputed
OrbitPath ==
    /\ scene.points # <<>>
    /\ \/ scene.linePoints # linePoints(scene.points)
       \/ scene.ensemblePoints # ensemblePoints(scene.isCloudMode, scene.orbitEnsemble)
    /\ scene' = [scene EXCEPT
                     !.linePoints = linePoints(scene.points),
                     !.ensemblePoints = ensemblePoints(scene.isCloudMode,
                                                       scene.orbitEnsemble)]
    /\ UNCHANGED <<integrateVars, storeVars, control>>
NextScene == InvokeForScene \/ Run \/ PredictionSelected \/ OrbitPath
SpecScene == Init /\ [][NextScene]_vars

(***************************************************************************)
(* Properties of integrate.                                                *)
(***************************************************************************)
Completed == 1 .. Len(history)
Origin == <<Zero, Zero, Zero>>

\* C1: for steps >= 0 a completed run returns steps + 1 points and steps + 1
\* velocities; for steps = 0 these are the initial state and nothing else.
C1_SampleCount ==
    \A i \in Completed :
        history[i].args.steps >= 0 =>
            /\ Len(history[i].result.points) = history[i].args.steps + 1
            /\ Len(history[i].result.velocities) = history[i].args.steps + 1
            /\ history[i].args.steps = 0 =>
                   /\ ValuesOf(history[i].result.points) = <<history[i].args.pos>>
                   /\ ValuesOf(history[i].result.velocities) = <<history[i].args.vel>>
\* a run of MaxSteps steps has returned MaxSteps + 1 samples
C1_Witness ==
    \E i \in Completed :
        /\ history[i].args.steps = MaxSteps
        /\ Len(history[i].result.points) = MaxSteps + 1
        /\ Len(history[i].result.velocities) = MaxSteps + 1

\* One leapfrog step as the specification words it, on a position p and a
\* velocity v: the acceleration at p, half a kick, the drift scaled by the
\* position scale, the acceleration at the new position, half a kick.
LeapfrogScale(c, q) ==
    Mul(Div(Neg(Mul(c.G, c.mass)),
            Mul(SquaredRadius(q[1], q[2], q[3]), Sqrt(SquaredRadius(q[1], q[2], q[3])))),
        c.Acc_Factor)
LeapfrogScaled(scale, q) == <<Mul(scale, q[1]), Mul(scale, q[2]), Mul(scale, q[3])>>
LeapfrogAccel(c, q) == LeapfrogScaled(LeapfrogScale(c, q), q)
LeapfrogHalfKick(c, dt, v, a) ==
    <<Add(v[1], Mul(Mul(Mul(a[1], Half), dt), c.C_v)),
      Add(v[2], Mul(Mul(Mul(a[2], Half), dt), c.C_v)),
      Add(v[3], Mul(Mul(Mul(a[3], Half), dt), c.C_v))>>
LeapfrogDrift(c, dt, q, v) ==
    <<Add(q[1], Mul(Mul(v[1], dt), c.C_x)),
      Add(q[2], Mul(Mul(v[2], dt), c.C_x)),
      Add(q[3], Mul(Mul(v[3], dt), c.C_x))>>
LeapfrogSecondKick(c, dt, q, v) == <<q, LeapfrogHalfKick(c, dt, v, LeapfrogAccel(c, q))>>
LeapfrogDrifted(c, dt, q, v) == LeapfrogSecondKick(c, dt, LeapfrogDrift(c, dt, q, v), v)
Leapfrog(c, dt, q, v) == LeapfrogDrifted(c, dt, q, LeapfrogHalfKick(c, dt, v, LeapfrogAccel(c, q)))

\* C2: each entry of points and velocities after the first is exactly one
\* leapfrog step of the entry before it, with the run's dt and unit
\* configuration.
C2_ConsecutiveByLeapfrog ==
    pc = "loop" =>
        \A i \in 1 .. Len(points) - 1 :
            <<points[i + 1].v, velocities[i + 1].v>> =
                Leapfrog(cfg, args.dt, points[i].v, velocities[i].v)
\* a run has taken MaxSteps steps through finite, distinct positions
C2_Witness ==
    /\ pc = "loop"
    /\ Len(points) = MaxSteps + 1
    /\ points[2].v # points[1].v
    /\ velocities[2].v # velocities[1].v
    /\ \A i \in 1 .. Len(points) : \A j \in 1 .. 3 :
           IsFinite(points[i].v[j]) /\ IsFinite(velocities[i].v[j])

\* C3: the first point is the pos argument and the first velocity the vel
\* argument, in every unit system and at the origin too.
C3_InitialSample ==
    /\ pc = "loop" => /\ points[1].v = args.pos
                      /\ velocities[1].v = args.vel
    /\ \A i \in Completed :
           /\ history[i].result.points[1].v = history[i].args.pos
           /\ history[i].result.velocities[1].v = history[i].args.vel
\* a run from the origin has returned the origin as its first point
C3_Witness ==
    \E i \in Completed :
        /\ history[i].args.pos = Origin
        /\ history[i].args.vel # Origin
        /\ history[i].args.units = "galactic"
        /\ history[i].args.steps = MaxSteps
        /\ history[i].result.points[1].v = Origin
        /\ history[i].result.velocities[1].v = history[i].args.vel

\* C4: with computeEnsemble a completed run of steps >= 0 returns an ensemble
\* of 100 trails, each of steps + 1 positions.
C4_EnsembleShape ==
    \A i \in Completed :
        (history[i].args.computeEnsemble /\ history[i].args.steps >= 0) =>
            /\ history[i].result.ensemble.defined
            /\ Len(history[i].result.ensemble.orbits) = 100
            /\ \A n \in 1 .. Len(history[i].result.ensemble.orbits) :
                   Len(history[i].result.ensemble.orbits[n]) = history[i].args.steps + 1
\* an ensemble run of MaxSteps steps has returned
C4_Witness ==
    \E i \in Completed :
        /\ history[i].args.computeEnsemble
        /\ history[i].args.steps = MaxSteps
        /\ history[i].result.ensemble.defined
        /\ Len(history[i].result.ensemble.orbits) = 100
        /\ Len(history[i].result.ensemble.orbits[100]) = MaxSteps + 1

\* C5: a run without computeEnsemble never draws from the random source,
\* holds no perturbed states, and returns no ensemble.
C5_NoEnsembleWork ==
    [][~args'.computeEnsemble =>
           /\ rng' = rng
           /\ cloud' = NoCloud
           /\ ensembleSize' = 0
           /\ ensembleState' = <<>>
           /\ ensembleOrbits' = <<>>
           /\ Len(history') > Len(history) =>
                  ~history'[Len(history')].result.ensemble.defined]_vars
\* a run without computeEnsemble has returned, after a run that drew
C5_Witness ==
    \E i \in Completed :
        /\ i > 1
        /\ history[i - 1].args.computeEnsemble
        /\ ~history[i].args.computeEnsemble
        /\ ~history[i].result.ensemble.defined
        /\ Len(history[i].result.points) = MaxSteps + 1

\* C6: two completed runs without computeEnsemble and with the same arguments
\* return the same points and velocities, whatever ran before or between them.
C6_Deterministic ==
    \A i \in Completed : \A j \in Completed :
        (history[i].args = history[j].args /\ ~history[i].args.computeEnsemble) =>
            /\ ValuesOf(history[i].result.points) = ValuesOf(history[j].result.points)
            /\ ValuesOf(history[i].result.velocities) = ValuesOf(history[j].result.velocities)
\* the same run has returned twice, with an ensemble run between the two
C6_Witness ==
    \E i \in Completed : \E j \in Completed :
        /\ j = i + 2
        /\ history[i].args = history[j].args
        /\ ~history[i].args.computeEnsemble
        /\ history[i + 1].args.computeEnsemble
        /\ Len(history[j].result.points) = MaxSteps + 1
        /\ history[j].result.points[2].v # history[j].result.points[1].v

\* the unit configurations as the specification states them
StatedGalactic(massOriginal) ==
    [G |-> Num(<<430091, -11>>), mass |-> Mul(massOriginal, Num(<<1, 10>>)),
     C_x |-> Num(<<1022712165, -12>>), C_v |-> Num(<<1, 0>>),
     Acc_Factor |-> Num(<<97779222, -5>>)]
StatedSolarSystem(massOriginal) ==
    [G |-> Num(<<394784176, -7>>), mass |-> massOriginal,
     C_x |-> Num(<<1, 0>>), C_v |-> Num(<<1, 0>>), Acc_Factor |-> Num(<<1, 0>>)]

\* C7: from its setup to its return a run uses the constants of its selector:
\* galactic G = 4.30091e-6, position scale 1.022712165e-3, acceleration scale
\* 977.79222, velocity scale 1, mass scale 1e10; solarsystem G = 39.4784176
\* and every scale 1.  The literals of the code are these decimals.
C7_UnitConstants ==
    /\ Literals = [G_GALACTIC |-> <<430091, -11>>,
                   KM_S_TO_KPC_MYR |-> <<1022712165, -12>>,
                   KPC_TO_KM_S_MYR |-> <<97779222, -5>>,
                   G_SOLAR |-> <<394784176, -7>>,
                   GalacticMassScale |-> <<1, 10>>]
    /\ (pc # "idle" /\ args.units = "galactic") => cfg = StatedGalactic(args.massOriginal)
    /\ (pc # "idle" /\ args.units = "solarsystem") => cfg = StatedSolarSystem(args.massOriginal)
\* a galactic run of a non-zero mass is at the end of its loop
C7_Witness ==
    /\ pc = "loop"
    /\ k = MaxSteps
    /\ args.units = "galactic"
    /\ args.massOriginal = One
    /\ cfg.mass = Num(<<1, 10>>)
    /\ cfg.C_x # cfg.Acc_Factor

AllNonFinite(q) == \A j \in 1 .. 3 : ~IsFinite(q[j])
SomeNonFinite(q) == \E j \in 1 .. 3 : ~IsFinite(q[j])

\* C8, as stated: when a recorded position is exactly the origin, the velocity
\* recorded at that step and every later position and velocity are non-finite,
\* and the run still returns steps + 1 entries.
C8_AsStated ==
    /\ (pc = "loop" /\ <<primary.x, primary.y, primary.z>> = Origin) =>
           SomeNonFinite(<<primary.ax, primary.ay, primary.az>>)
    /\ \A i \in Completed : \A n \in 1 .. Len(history[i].result.points) :
           (history[i].args.steps >= 0 /\ history[i].result.points[n].v = Origin) =>
               /\ SomeNonFinite(history[i].result.velocities[n].v)
               /\ \A m \in n + 1 .. Len(history[i].result.points) :
                      /\ SomeNonFinite(history[i].result.points[m].v)
                      /\ SomeNonFinite(history[i].result.velocities[m].v)
               /\ Len(history[i].result.points) = history[i].args.steps + 1
               /\ Len(history[i].result.velocities) = history[i].args.steps + 1

\* C8: when a recorded position is exactly the origin, every later position
\* and velocity is non-finite in every component, and so is the velocity
\* recorded at that step unless it is the first, which is the vel argument;
\* the run still returns steps + 1 entries.
C8_Singularity ==
    /\ (pc = "loop" /\ <<primary.x, primary.y, primary.z>> = Origin) =>
           AllNonFinite(<<primary.ax, primary.ay, primary.az>>)
    /\ \A i \in Completed : \A n \in 1 .. Len(history[i].result.points) :
           (history[i].args.steps >= 0 /\ history[i].result.points[n].v = Origin) =>
               /\ n > 1 => AllNonFinite(history[i].result.velocities[n].v)
               /\ n = 1 => history[i].result.velocities[n].v = history[i].args.vel
               /\ \A m \in n + 1 .. Len(history[i].result.points) :
                      /\ AllNonFinite(history[i].result.points[m].v)
                      /\ AllNonFinite(history[i].result.velocities[m].v)
               /\ Len(history[i].result.points) = history[i].args.steps + 1
               /\ Len(history[i].result.velocities) = history[i].args.steps + 1
\* a run has drifted onto the origin at its first step and gone on
C8_Witness ==
    \E i \in Completed :
        /\ history[i].args.steps = MaxSteps
        /\ history[i].result.points[1].v # Origin
        /\ history[i].result.points[2].v = Origin
        /\ AllNonFinite(history[i].result.velocities[2].v)
        /\ AllNonFinite(history[i].result.points[MaxSteps + 1].v)

\* C9: integrate rejects nothing: whatever the selector, the sign of dt or of
\* steps, the call starts, no state of the run is one it stops in without
\* returning, and what it returns has the shape of a result; a selector
\* other than 'solarsystem' is integrated with the galactic configuration.
C9_NoValidation ==
    /\ (pc = "idle" /\ ncalls = 0) => \A a \in Arguments : ENABLED Invoke(a)
    /\ pc \in {"idle", "generateEnsemble", "acceleration", "loop"}
    /\ pc = "generateEnsemble" =>
           (Len(cloud.positions) < ensembleSize \/ ENABLED SetupEnsemble)
    /\ pc = "loop" => (LoopContinues(k, args.steps) \/ ENABLED Return)
    /\ (pc # "idle" /\ args.units # "solarsystem") => cfg = StatedGalactic(args.massOriginal)
    /\ \A i \in Completed :
           /\ Len(history[i].result.points) >= 1
           /\ Len(history[i].result.velocities) = Len(history[i].result.points)
           /\ history[i].result.ensemble.defined = history[i].args.computeEnsemble
\* a run with an unknown selector, a negative dt and a negative steps has returned
C9_Witness ==
    \E i \in Completed :
        /\ history[i].args.units = "imperial"
        /\ history[i].args.dt = MinusOne
        /\ history[i].args.steps = -1
        /\ Len(history[i].result.points) = 1

\* the trajectory of a run that is alone, as the specification defines it:
\* the initial state, then steps leapfrog steps
StatedConfig(a) ==
    IF a.units = "solarsystem" THEN StatedSolarSystem(a.massOriginal)
    ELSE StatedGalactic(a.massOriginal)
RECURSIVE AloneFrom(_, _, _, _, _)
AloneNext(c, dt, n, ps, vs, next) ==
    AloneFrom(c, dt, n - 1, Append(ps, next[1]), Append(vs, next[2]))
AloneFrom(c, dt, n, ps, vs) ==
    IF n <= 0 THEN [points |-> ps, velocities |-> vs]
    ELSE AloneNext(c, dt, n, ps, vs, Leapfrog(c, dt, ps[Len(ps)], vs[Len(vs)]))
Alone(a) == AloneFrom(StatedConfig(a), a.dt, a.steps, <<a.pos>>, <<a.vel>>)

OwnedBy(call, arrays) == \A n \in 1 .. Len(arrays) : arrays[n].own = call

\* C10: integrate keeps no state across calls: the caller's pos and vel hold
\* what was passed, every array a call returns was allocated by that call, and
\* each call of a sequence returns the trajectory it returns alone.  (The
\* completed calls are examined between calls: a call is added to them as
\* it returns.)
C10_NoSharedState ==
    /\ pc # "idle" => /\ pos = NewArray(0, args.pos[1], args.pos[2], args.pos[3])
                      /\ vel = NewArray(0, args.vel[1], args.vel[2], args.vel[3])
    /\ pc = "idle" =>
           \A i \in Completed :
               /\ history[i].pos = NewArray(0, history[i].args.pos[1],
                                            history[i].args.pos[2], history[i].args.pos[3])
               /\ history[i].vel = NewArray(0, history[i].args.vel[1],
                                            history[i].args.vel[2], history[i].args.vel[3])
               /\ OwnedBy(i, history[i].result.points)
               /\ OwnedBy(i, history[i].result.velocities)
               /\ \A n \in 1 .. Len(history[i].result.ensemble.orbits) :
                      OwnedBy(i, history[i].result.ensemble.orbits[n])
               /\ ValuesOf(history[i].result.points) = Alone(history[i].args).points
               /\ ValuesOf(history[i].result.velocities) = Alone(history[i].args).velocities
\* MaxCalls runs have returned, with and without ensembles, in both unit systems
C10_Witness ==
    /\ Len(history) = MaxCalls
    /\ \E i \in Completed : \E j \in Completed :
           /\ i < j
           /\ history[i].args.computeEnsemble
           /\ ~history[j].args.computeEnsemble
           /\ history[i].args.units # history[j].args.units
           /\ Len(history[j].result.points) = MaxSteps + 1

\* C11: the ensemble particles do not interact: while a run propagates, the
\* trail of each particle is the one its own initial position and velocity
\* give under the shared dt, step count and unit configuration, whatever
\* the other particles are and whether or not they went non-finite.
C11_ParticlesIndependent ==
    (pc = "loop" /\ args.computeEnsemble) =>
        \A i \in 1 .. ensembleSize :
            ValuesOf(ensembleOrbits[i]) =
                AloneFrom(cfg, args.dt, k, <<cloud.positions[i].v>>,
                          <<cloud.velocities[i].v>>).points
\* a run has taken MaxSteps steps with one particle gone non-finite and
\* another, of another initial state, still finite
C11_Witness ==
    /\ pc = "loop"
    /\ args.computeEnsemble
    /\ k = MaxSteps
    /\ \E i \in 1 .. ensembleSize : \E j \in 1 .. ensembleSize :
           /\ cloud.positions[i].v # cloud.positions[j].v
           /\ SomeNonFinite(ensembleOrbits[j][k + 1].v)
           /\ \A n \in 1 .. k + 1 : ~SomeNonFinite(ensembleOrbits[i][n].v)
           /\ ensembleOrbits[i][k + 1].v # ensembleOrbits[i][1].v

\* C12: an ensemble particle whose initial position and velocity are the
\* seed's records at every step the position the primary records: the
\* ensemble is propagated with the primary's force law, constants, dt and
\* step scheme.
C12_SameLawAsPrimary ==
    (pc = "loop" /\ args.computeEnsemble) =>
        \A i \in 1 .. ensembleSize :
            (cloud.positions[i].v = args.pos /\ cloud.velocities[i].v = args.vel) =>
                ValuesOf(ensembleOrbits[i]) = ValuesOf(points)
\* a particle that started on the seed state has followed the primary for
\* MaxSteps steps, away from where it started
C12_Witness ==
    /\ pc = "loop"
    /\ args.computeEnsemble
    /\ k = MaxSteps
    /\ \E i \in 1 .. ensembleSize :
           /\ cloud.positions[i].v = args.pos
           /\ cloud.velocities[i].v = args.vel
           /\ Len(ensembleOrbits[i]) = MaxSteps + 1
           /\ ensembleOrbits[i][MaxSteps + 1].v = points[MaxSteps + 1].v
    /\ points[MaxSteps + 1].v # points[1].v
    /\ ~SomeNonFinite(points[MaxSteps + 1].v)

\* the draws of one call of randn, at the positions from .. to - 1: u at iu,
\* v at the last one, every other draw a 0 that was discarded
DrawsOf(call, iu) ==
    /\ call.from <= iu
    /\ iu < call.to - 1
    /\ MathRandom(iu) = call.u
    /\ MathRandom(call.to - 1) = call.v
    /\ \A j \in call.from .. call.to - 1 : (j # iu /\ j # call.to - 1) => MathRandom(j) = Zero
StatedVariate(call) ==
    Mul(Sqrt(Mul(Num(<<-2, 0>>), MathLog(call.u))), CosTwoPi(call.v))

\* C13: in generateEnsemble every variate comes from two draws u and v that
\* are not 0, every draw before them that was dropped is a 0, so that log is
\* never applied to 0; a variate none of whose draws is 0 consumes exactly
\* two; a particle takes 6 variates drawn one after the other, position
\* x, y, z then velocity x, y, z.
C13_NonZeroDraws ==
    (pc = "generateEnsemble" /\ randnCalls # <<>>) =>
        /\ Len(randnCalls) = 6
        /\ \A n \in 1 .. Len(randnCalls) :
               /\ randnCalls[n].u # Zero
               /\ randnCalls[n].v # Zero
               /\ IsFinite(MathLog(randnCalls[n].u))
               /\ \E iu \in randnCalls[n].from .. randnCalls[n].to : DrawsOf(randnCalls[n], iu)
               /\ (MathRandom(randnCalls[n].from) # Zero
                   /\ MathRandom(randnCalls[n].from + 1) # Zero) =>
                      randnCalls[n].to = randnCalls[n].from + 2
               /\ n > 1 => randnCalls[n].from = randnCalls[n - 1].to
        /\ randnCalls[1].from = (rng - (randnCalls[6].to - randnCalls[1].from)) % StreamLen
        /\ \A j \in 1 .. 3 :
               /\ cloud.positions[Len(cloud.positions)].v[j] =
                      Add(args.pos[j], Mul(StatedVariate(randnCalls[j]), Num(<<1, -4>>)))
               /\ cloud.velocities[Len(cloud.velocities)].v[j] =
                      Add(args.vel[j], Mul(StatedVariate(randnCalls[j + 3]), Num(<<1, -4>>)))
\* a particle has been generated with a variate of exactly two draws and a
\* variate before which a 0 was drawn and dropped
C13_Witness ==
    /\ pc = "generateEnsemble"
    /\ Len(randnCalls) = 6
    /\ \E n \in 1 .. 6 : \E m \in 1 .. 6 :
           /\ randnCalls[n].to = randnCalls[n].from + 2
           /\ randnCalls[m].to > randnCalls[m].from + 2
           /\ \E j \in randnCalls[m].from .. randnCalls[m].to - 1 : MathRandom(j) = Zero

Pos3(s) == <<s.x, s.y, s.z>>
Vel3(s) == <<s.vx, s.vy, s.vz>>
Acc3(s) == <<s.ax, s.ay, s.az>>
\* the particle went from before to after by a half-kick with the
\* acceleration at its position before, a drift with the half-kicked velocity,
\* the acceleration at the drifted position and a half-kick with that one
KickDriftKick(before, after, half) ==
    /\ half = LeapfrogHalfKick(cfg, args.dt, Vel3(before),
                               LeapfrogAccel(cfg, Pos3(before)))
    /\ Pos3(after) = LeapfrogDrift(cfg, args.dt, Pos3(before), half)
    /\ Acc3(after) = LeapfrogAccel(cfg, Pos3(after))
    /\ Vel3(after) = LeapfrogHalfKick(cfg, args.dt, half, Acc3(after))

\* C17: in every global step the primary and every ensemble particle are
\* advanced kick, drift, kick: the first half-kick uses the acceleration at
\* the previous position, the drift the half-kicked velocity, the second
\* half-kick the acceleration at the drifted position, and what is recorded
\* is the state after the second half-kick.
C17_KickDriftKick ==
    [][(pc = "loop" /\ k' = k + 1) =>
          /\ \E half \in {LeapfrogHalfKick(cfg, args.dt, Vel3(primary), Acc3(primary))} :
                 KickDriftKick(primary, primary', half)
          /\ Len(points') = Len(points) + 1
          /\ points'[Len(points')].v = Pos3(primary')
          /\ Len(velocities') = Len(velocities) + 1
          /\ velocities'[Len(velocities')].v = Vel3(primary')
          /\ args.computeEnsemble =>
                 \A i \in 1 .. ensembleSize :
                     /\ \E half \in {LeapfrogHalfKick(cfg, args.dt, Vel3(ensembleState[i]),
                                                      Acc3(ensembleState[i]))} :
                            KickDriftKick(ensembleState[i], ensembleState'[i], half)
                     /\ Len(ensembleOrbits'[i]) = Len(ensembleOrbits[i]) + 1
                     /\ ensembleOrbits'[i][Len(ensembleOrbits'[i])].v =
                            Pos3(ensembleState'[i])]_vars
\* the last step of a run moved the primary and an ensemble particle between
\* finite, distinct states
C17_Witness ==
    /\ pc = "loop"
    /\ args.computeEnsemble
    /\ k = MaxSteps
    /\ points[k + 1].v # points[k].v
    /\ velocities[k + 1].v # velocities[k].v
    /\ ~SomeNonFinite(points[k + 1].v) /\ ~SomeNonFinite(velocities[k + 1].v)
    /\ \E i \in 1 .. ensembleSize :
           /\ ensembleOrbits[i][k + 1].v # ensembleOrbits[i][k].v
           /\ ~SomeNonFinite(ensembleOrbits[i][k + 1].v)
           /\ ~SomeNonFinite(Vel3(ensembleState[i]))
           /\ Vel3(ensembleState[i]) # cloud.velocities[i].v

\* -(G * M) / r^3 * acceleration_scale * position, with the constants and the
\* physical mass of the run's unit system
StatedAcceleration(a, q) == LeapfrogAccel(StatedConfig(a), q)
Defined3(t) == t[1] # Undefined /\ t[2] # Undefined /\ t[3] # Undefined

\* C18: at the start of every loop iteration the acceleration carried for
\* the primary and for each ensemble particle is the Kepler acceleration at
\* the particle's current position, with the run's physical mass; every
\* ensemble particle has one before the first step.
C18_CarriedAcceleration ==
    pc = "loop" =>
        /\ Acc3(primary) = StatedAcceleration(args, Pos3(primary))
        /\ args.computeEnsemble =>
               \A i \in 1 .. ensembleSize :
                   /\ Defined3(Acc3(ensembleState[i]))
                   /\ Acc3(ensembleState[i]) =
                          StatedAcceleration(args, Pos3(ensembleState[i]))
\* an iteration is about to start after another, with finite accelerations
\* that are not zero carried for the primary and for an ensemble particle
\* away from the primary
C18_Witness ==
    /\ pc = "loop"
    /\ k >= 1
    /\ LoopContinues(k, args.steps)
    /\ args.computeEnsemble
    /\ ~SomeNonFinite(Acc3(primary)) /\ Acc3(primary) # Origin
    /\ \E i \in 1 .. ensembleSize :
           /\ ~SomeNonFinite(Acc3(ensembleState[i]))
           /\ Acc3(ensembleState[i]) # Origin
           /\ Acc3(ensembleState[i]) # Acc3(primary)

\* C19: once the global step of index done (from 0) is completed, points,
\* velocities and the trajectory of every ensemble particle hold exactly
\* done + 2 entries each.
C19_LockStep ==
    (pc = "loop" /\ k >= 1) =>
        \E done \in {k - 1} :
            /\ Len(points) = done + 2
            /\ Len(velocities) = done + 2
            /\ args.computeEnsemble =>
                   \A i \in 1 .. ensembleSize : Len(ensembleOrbits[i]) = done + 2
\* the last step of an ensemble run of MaxSteps steps is completed
C19_Witness ==
    /\ pc = "loop"
    /\ args.computeEnsemble
    /\ args.steps = MaxSteps
    /\ k = args.steps
    /\ Len(ensembleOrbits) = EnsembleParticles

\* the arguments a and b differ at most in computeEnsemble
SameButEnsemble(a, b) ==
    [a EXCEPT !.computeEnsemble = FALSE] = [b EXCEPT !.computeEnsemble = FALSE]

\* C27: a run with computeEnsemble and a run without it, with the same mass,
\* pos, vel, dt, steps and units, return the same points and velocities,
\* wherever the random source stands when the ensemble is drawn.
C27_PrimaryIgnoresEnsemble ==
    pc = "idle" =>
        \A i \in Completed : \A j \in Completed :
            (/\ history[i].args.computeEnsemble
             /\ ~history[j].args.computeEnsemble
             /\ SameButEnsemble(history[i].args, history[j].args)) =>
                /\ ValuesOf(history[i].result.points) = ValuesOf(history[j].result.points)
                /\ ValuesOf(history[i].result.velocities) =
                       ValuesOf(history[j].result.velocities)
\* the same run has returned with an ensemble and without one, and its
\* ensemble does not follow the primary
C27_Witness ==
    /\ pc = "idle"
    /\ \E i \in Completed : \E j \in Completed :
           /\ history[i].args.computeEnsemble
           /\ ~history[j].args.computeEnsemble
           /\ SameButEnsemble(history[i].args, history[j].args)
           /\ Len(history[i].result.points) = MaxSteps + 1
           /\ history[i].result.ensemble.defined
           /\ \E n \in 1 .. Len(history[i].result.ensemble.orbits) :
                  ValuesOf(history[i].result.ensemble.orbits[n]) #
                      ValuesOf(history[i].result.points)

\* C29: with steps < 0 the loop does not run: when the run is about to
\* return, points and velocities hold one entry, the pos and vel arguments,
\* and with computeEnsemble every ensemble trajectory holds one entry, the
\* particle's perturbed initial position; the run then returns them.
C29_NegativeStepsRunNothing ==
    /\ (pc = "loop" /\ args.steps < 0) =>
           /\ k = 0
           /\ ValuesOf(points) = <<args.pos>>
           /\ ValuesOf(velocities) = <<args.vel>>
           /\ args.computeEnsemble =>
                  /\ Len(ensembleOrbits) = 100
                  /\ \A i \in 1 .. Len(ensembleOrbits) :
                         ValuesOf(ensembleOrbits[i]) = <<cloud.positions[i].v>>
    /\ pc = "idle" =>
           \A i \in Completed :
               history[i].args.steps < 0 =>
                   /\ ValuesOf(history[i].result.points) = <<history[i].args.pos>>
                   /\ ValuesOf(history[i].result.velocities) = <<history[i].args.vel>>
                   /\ history[i].args.computeEnsemble =>
                          /\ history[i].result.ensemble.defined
                          /\ \A n \in 1 .. Len(history[i].result.ensemble.orbits) :
                                 Len(history[i].result.ensemble.orbits[n]) = 1
\* an ensemble run with steps = -1 has returned one entry per trajectory,
\* and the ensemble's entries are not all the primary's
C29_Witness ==
    /\ pc = "idle"
    /\ \E i \in Completed :
           /\ history[i].args.steps = -1
           /\ history[i].args.computeEnsemble
           /\ Len(history[i].result.points) = 1
           /\ Len(history[i].result.ensemble.orbits) = 100
           /\ \E n \in 1 .. 100 :
                  ValuesOf(history[i].result.ensemble.orbits[n]) #
                      ValuesOf(history[i].result.points)

(***************************************************************************)
(* Properties of the store's operations, over the journal of invocations.  *)
(***************************************************************************)
Asynchronous == {"integrateOrbit", "exportPythonCode", "analyzeChaos"}
\* the invocations of integrateOrbit so far
Integrations == {n \in 1 .. Len(journal) : journal[n].op = "integrateOrbit"}

\* C14: an invocation of integrateOrbit for a Kepler potential both computes
\* the local prediction and issues an /integrate request for the same
\* parameters before it ends.
C14_OptimisticIntegration ==
    \A n \in Integrations :
        journal[n].captured.potentialType = "kepler" =>
            /\ journal[n].integrate = <<IntegrateArguments(journal[n].captured)>>
            /\ \E r \in 1 .. Len(journal[n].requests) :
                   journal[n].requests[r] =
                       Request("/integrate", IntegrateBody(journal[n].captured))

\* C15: an invocation of integrateOrbit with integrator dop853 or ruth4 never
\* calls the client leapfrog and issues an /integrate request carrying that
\* integrator, whatever the potential; a stored client-side trajectory was
\* obtained by an invocation with integrator leapfrog.
C15_ServerOnlyIntegrators ==
    /\ \A n \in Integrations :
           journal[n].captured.integrator \in {"dop853", "ruth4"} =>
               /\ journal[n].integrate = <<>>
               /\ \E r \in 1 .. Len(journal[n].requests) :
                      /\ journal[n].requests[r].endpoint = "/integrate"
                      /\ journal[n].requests[r].body.integrator =
                             journal[n].captured.integrator
    /\ (store.points.kind = "trajectory" /\ store.points.engine = "client leapfrog") =>
           journal[store.points.invocation].captured.integrator = "leapfrog"

\* C20: the mass of every request body is the nominal mass times 1e10 when
\* the body's units are galactic and times 1 when they are solarsystem.
C20_MassScaledByUnits ==
    \A n \in 1 .. Len(journal) :
        journal[n].op \in Asynchronous =>
            \A r \in 1 .. Len(journal[n].requests) :
                journal[n].requests[r].body.mass =
                    IF journal[n].requests[r].body.units = "galactic"
                    THEN Mul(journal[n].captured.potentialParams.mass, Num(<<1, 10>>))
                    ELSE Mul(journal[n].captured.potentialParams.mass, Num(<<1, 0>>))

(***************************************************************************)
(* Properties of the scene.                                                *)
(***************************************************************************)
Finite3(p) == IsFinite(p[1]) /\ IsFinite(p[2]) /\ IsFinite(p[3])

\* C16: every vector OrbitPath gives to the renderer, of the primary
\* trajectory and of every ensemble trajectory, has three finite coordinates.
C16_RenderedPointsFinite ==
    /\ \A i \in 1 .. Len(scene.linePoints) : Finite3(scene.linePoints[i])
    /\ \A j \in 1 .. Len(scene.ensemblePoints) :
           \A i \in 1 .. Len(scene.ensemblePoints[j]) : Finite3(scene.ensemblePoints[j][i])

(***************************************************************************)
(* Properties of the store under requests that settle.                     *)
(***************************************************************************)
\* the invocations of integrateOrbit that await their request
IntegrationsAwaiting == {f \in pending : f.op = "integrateOrbit"}
\* this step starts an invocation of integrateOrbit
IntegrationStarts ==
    /\ Len(journal') > Len(journal)
    /\ journal'[Len(journal')].op = "integrateOrbit"

\* C21: an invocation of integrateOrbit that goes to the server leaves
\* isIntegrating true while it awaits and one that predicts locally leaves it
\* false; whenever no invocation awaits its request isIntegrating is false;
\* and isIntegrating, once true, becomes false again.
C21_IsIntegratingCleared ==
    /\ [][IntegrationStarts =>
              store'.isIntegrating = (journal'[Len(journal')].requests # <<>>)]_vars
    /\ [](IntegrationsAwaiting = {} => ~store.isIntegrating)
    /\ (store.isIntegrating ~> ~store.isIntegrating)
\* an invocation that went to the server was refused, nothing is awaited and
\* isIntegrating is false
C21_Witness ==
    /\ \E n \in 1 .. Len(journal) :
           journal[n].op = "integrateOrbit" /\ journal[n].requests # <<>>
    /\ IntegrationsAwaiting = {}
    /\ store.error = Text("refused")
    /\ ~store.isIntegrating

\* the text is not JSON, or the value it holds lacks potentialType or
\* potentialParams
StatedInvalid(text) ==
    \/ ~text.valid
    \/ text.value.t # "object"
    \/ "potentialType" \notin DOMAIN text.value.members
    \/ "potentialParams" \notin DOMAIN text.value.members
\* this step is the call importSimulation(text) of such a text
InvalidImport ==
    /\ Len(journal') > Len(journal)
    /\ journal'[Len(journal) + 1].op = "importSimulation"
    /\ StatedInvalid(journal'[Len(journal) + 1].json)

\* C22: importSimulation of a text that is not JSON or lacks potentialType
\* or potentialParams returns false, starts no integration and leaves the
\* settings, isDirty, points and velocities as they were; it appends one
\* log entry of type warn.
C22_FailedImportHasNoEffect ==
    [][InvalidImport =>
          /\ journal'[Len(journal) + 1].returns = FALSE
          /\ Len(journal') = Len(journal) + 1
          /\ pending' = pending
          /\ store'.isIntegrating = store.isIntegrating
          /\ store'.potentialType = store.potentialType
          /\ store'.units = store.units
          /\ store'.potentialParams = store.potentialParams
          /\ store'.integrator = store.integrator
          /\ store'.isCloudMode = store.isCloudMode
          /\ store'.isObserverMode = store.isObserverMode
          /\ store'.timeDirection = store.timeDirection
          /\ store'.isDirty = store.isDirty
          /\ store'.points = store.points
          /\ store'.velocities = store.velocities
          /\ Len(store'.logs) = Len(store.logs) + 1
          /\ SubSeq(store'.logs, 1, Len(store.logs)) = store.logs
          /\ store'.logs[Len(store'.logs)].type = "warn"]_vars
\* a text without potentialParams was imported into a store that holds a
\* trajectory and settings that are not the defaults
C22_Witness ==
    /\ Len(journal) >= 3
    /\ journal[Len(journal)].op = "importSimulation"
    /\ journal[Len(journal)].json.valid
    /\ journal[Len(journal)].json.value.t = "object"
    /\ "potentialParams" \notin DOMAIN journal[Len(journal)].json.value.members
    /\ store.points.kind = "trajectory"
    /\ store.potentialParams # DefaultParams
    /\ store.logs[Len(store.logs)].type = "warn"

\* the calls of serializeState so far, and the calls importSimulation(text)
Serializations == {m \in 1 .. Len(journal) : journal[m].op = "serializeState"}
ImportsOf(text) ==
    {n \in 1 .. Len(journal) : journal[n].op = "importSimulation" /\ journal[n].json = text}

\* C23: importSimulation of a text serializeState returned, whatever the
\* store holds by then, returns true and sets potentialType, units, the
\* eight potentialParams, integrator, isCloudMode, isObserverMode and
\* timeDirection to the values they had when serializeState was called
\* (they are what the integrateOrbit it then calls reads from the store).
C23_RoundTrip ==
    \A m \in Serializations : \A n \in ImportsOf(journal[m].text) :
        n > m =>
            /\ journal[n].returns
            /\ journal[n + 1].op = "integrateOrbit"
            /\ journal[n + 1].captured.potentialType = journal[m].captured.potentialType
            /\ journal[n + 1].captured.units = journal[m].captured.units
            /\ DOMAIN journal[n + 1].captured.potentialParams =
                   {"mass", "time_step", "x", "y", "z", "vx", "vy", "vz"}
            /\ journal[n + 1].captured.potentialParams = journal[m].captured.potentialParams
            /\ journal[n + 1].captured.integrator = journal[m].captured.integrator
            /\ journal[n + 1].captured.isCloudMode = journal[m].captured.isCloudMode
            /\ journal[n + 1].captured.isObserverMode = journal[m].captured.isObserverMode
            /\ journal[n + 1].captured.timeDirection = journal[m].captured.timeDirection

\* the most recently started invocation of integrateOrbit
LatestIntegration == CHOOSE j \in Integrations : \A i \in Integrations : i <= j

\* C24: once no invocation of integrateOrbit awaits its request, the
\* trajectory in the store is the one of the most recently started
\* invocation, for its parameters, when that invocation completed with a
\* result while an earlier one was still awaiting its request (a local
\* prediction always completes so).
C24_LatestInvocationWins ==
    (IntegrationsAwaiting = {} /\ Integrations # {}) =>
        (journal[LatestIntegration].integrate # <<>> =>
            /\ store.points.kind = "trajectory"
            /\ store.points.invocation = LatestIntegration
            /\ store.points.for = journal[LatestIntegration].integrate[1]
            /\ store.velocities.kind = "trajectory"
            /\ store.velocities.invocation = LatestIntegration
            /\ store.orbitEnsemble.kind = "trajectory" =>
                   store.orbitEnsemble.invocation = LatestIntegration)

\* the settings of the store st are the ones the record c holds
SameSettings(st, c) ==
    /\ st.potentialType = c.potentialType
    /\ st.units = c.units
    /\ st.potentialParams = c.potentialParams
    /\ st.integrator = c.integrator
    /\ st.isCloudMode = c.isCloudMode
    /\ st.isObserverMode = c.isObserverMode
    /\ st.timeDirection = c.timeDirection

\* C25: when isDirty is false and an integration has been started, the
\* settings are the ones the most recently started integrateOrbit read; a
\* step that changes a setting leaves isDirty true unless integrateOrbit
\* starts in it, and isDirty goes from true to false only in a step in which
\* integrateOrbit starts.
C25_DirtyTracksChanges ==
    /\ []((~store.isDirty /\ Integrations # {}) =>
              SameSettings(store, journal[LatestIntegration].captured))
    /\ [][(~SameSettings(store', store) /\ ~IntegrationStarts) => store'.isDirty]_vars
    /\ [][(store.isDirty /\ ~store'.isDirty) => IntegrationStarts]_vars
\* the units were changed, an integration was started after it, and the
\* store is clean with settings that are not the initial ones
C25_Witness ==
    /\ Len(journal) >= 2
    /\ journal[1].op = "setUnits"
    /\ journal[1].with = "solarsystem"
    /\ journal[Len(journal)].op = "integrateOrbit"
    /\ ~store.isDirty
    /\ ~SameSettings(store, InitialStore)

\* C26: potentialType, units, integrator and timeDirection of the store are
\* always in their declared sets, and integrate is only called with the unit
\* selector galactic or solarsystem.
C26_EnumeratedFieldsDeclared ==
    /\ store.potentialType \in {"kepler", "milkyway", "hernquist"}
    /\ store.units \in {"galactic", "solarsystem"}
    /\ store.integrator \in {"leapfrog", "dop853", "ruth4"}
    /\ store.timeDirection \in {"forward", "backward"}
    /\ \A n \in Integrations : \A c \in 1 .. Len(journal[n].integrate) :
           journal[n].integrate[c].units \in {"galactic", "solarsystem"}

(***************************************************************************)
(* Properties of the log.                                                  *)
(***************************************************************************)
\* every entry logged so far, the first one of the store included, in the
\* order of the calls
Logged == InitialLogs \o [n \in 1 .. Len(journal) |-> journal[n].with]

\* C28: logs holds at most 50 entries: the last 50 that were logged, in the
\* order they were logged, the newest last.
C28_LogBounded ==
    /\ Len(store.logs) <= 50
    /\ store.logs = IF Len(Logged) <= 50 THEN Logged
                    ELSE SubSeq(Logged, Len(Logged) - 49, Len(Logged))
\* more entries were logged than the log keeps: the first entry of the store
\* and a marked entry logged first are gone, a marked entry logged later is
\* kept
C28_Witness ==
    /\ Len(journal) = MaxLogged
    /\ Len(store.logs) = 50
    /\ journal[1].with.msg = "mark"
    /\ journal[Len(journal)].with.msg = "mark"
    /\ store.logs[50].msg = "mark"
    /\ \A n \in 1 .. 49 : store.logs[n].msg = "tick"

\* the iterations of for (let k = 0; k < steps; k++), steps given in halves
IterationsOf(halves) == IF halves <= 0 THEN 0 ELSE (halves + 1) \div 2

\* C30: generateEnsemble, and with it integrate with computeEnsemble = true,
\* terminates when Math.random does not return 0 for ever; integrate returns
\* after as many iterations as the least whole number that is no less than
\* max(steps, 0), and with an ensemble its loop has then evaluated the force
\* 100 times that number, once per particle and iteration.
C30_Terminates ==
    /\ (control.at \in {"for", "u", "v"}) ~> (control.at = "loop")
    /\ (control.at # "idle") ~> (control.at = "returned")
    /\ [](control.at = "returned" =>
            /\ control.k = IterationsOf(control.steps)
            /\ control.evaluations =
                   IF control.computeEnsemble
                   THEN 100 * IterationsOf(control.steps) ELSE 0)
C30_Witness ==
    /\ control.at = "returned"
    /\ control.computeEnsemble
    /\ control.steps = 3
    /\ control.k = 2
    /\ control.evaluations = 200
\* C30 as stated: exactly max(steps, 0) iterations, and with an ensemble
\* exactly 100 x steps force evaluations
C30_AsStated ==
    control.at = "returned" =>
        /\ 2 * control.k = (IF control.steps < 0 THEN 0 ELSE control.steps)
        /\ control.computeEnsemble => 2 * control.evaluations = 100 * control.steps

====
